---- MODULE Spec2Model ----
(***************************************************************************)
(* RV32IMAC emulator core (cpu.py, ram.py, peripherals.py, rvc.py and the  *)
(* step loop of browser_entry.py) as a state machine.                      *)
(*                                                                         *)
(* Numbers.  TLC's integers are 32-bit signed, so a 32-bit machine word is *)
(* kept at its true width as a pair <<hi, lo>> of 16-bit halves            *)
(* (value = hi * 2^16 + lo), and the 64-bit mtime / mtimecmp as four       *)
(* 16-bit limbs, most significant first.  Every constant of the source     *)
(* (0x80000007, 0x00001800, 0x0200BFF8, ...) keeps its value.              *)
(***************************************************************************)
EXTENDS Integers, Sequences, FiniteSets, TLC

\* ------------------------------------------------------------------------
\* 32-bit words as two 16-bit halves
\* ------------------------------------------------------------------------
B16 == 256 * 256

\* the word with value n, for 0 <= n < 2^31
w32(n) == <<n \div B16, n % B16>>

Zero == <<0, 0>>

RECURSIVE band(_, _)
\* x & y on naturals
band(x, y) == IF x = 0 \/ y = 0 THEN 0
              ELSE 2 * band(x \div 2, y \div 2) + (x % 2) * (y % 2)

\* x | y and x ^ y on naturals
bor(x, y) == x + y - band(x, y)
bxor(x, y) == x + y - 2 * band(x, y)

and32(a, b) == <<band(a[1], b[1]), band(a[2], b[2])>>
or32(a, b) == <<bor(a[1], b[1]), bor(a[2], b[2])>>
xor32(a, b) == <<bxor(a[1], b[1]), bxor(a[2], b[2])>>
\* a & ~b
andnot32(a, b) == <<a[1] - band(a[1], b[1]), a[2] - band(a[2], b[2])>>

\* (a + b) & 0xFFFFFFFF
add32(a, b) == LET lo == a[2] + b[2]
               IN <<(a[1] + b[1] + lo \div B16) % B16, lo % B16>>

\* (a - b) & 0xFFFFFFFF
sub32(a, b) == LET lo == a[2] - b[2] + B16
               IN <<(a[1] - b[1] + B16 - 1 + lo \div B16) % B16, lo % B16>>

\* i & 0xFFFFFFFF for a Python int i with -2^31 < i < 2^31
sx32(i) == IF i >= 0 THEN w32(i)
           ELSE <<B16 - 1 - ((-i - 1) \div B16), B16 - 1 - ((-i - 1) % B16)>>

\* unsigned a < b, a >= b
ltu32(a, b) == a[1] < b[1] \/ (a[1] = b[1] /\ a[2] < b[2])
geu32(a, b) == ~ltu32(a, b)

\* signed32(a) < signed32(b)
lts32(a, b) == ltu32(<<(a[1] + 32768) % B16, a[2]>>, <<(b[1] + 32768) % B16, b[2]>>)

\* (a << n) & 0xFFFFFFFF, a >> n and the arithmetic a >> n, for 0 <= n < 32
shl32(a, n) ==
    IF n < 16 THEN <<(a[1] * 2^n + a[2] \div 2^(16 - n)) % B16, (a[2] * 2^n) % B16>>
    ELSE <<(a[2] * 2^(n - 16)) % B16, 0>>
shr32(a, n) ==
    IF n < 16 THEN <<a[1] \div 2^n, ((a[1] % 2^n) * 2^(16 - n)) + a[2] \div 2^n>>
    ELSE <<0, a[1] \div 2^(n - 16)>>
sra32(a, n) ==
    IF a[1] < 32768 THEN shr32(a, n)
    ELSE LET ones == <<B16 - 1, B16 - 1>>
         IN <<shr32(a, n)[1] + (ones[1] - shr32(ones, n)[1]),
              shr32(a, n)[2] + (ones[2] - shr32(ones, n)[2])>>

\* bit k of a word (0 <= k < 32)
bit32(a, k) == IF k < 16 THEN (a[2] \div 2^k) % 2 ELSE (a[1] \div 2^(k - 16)) % 2

\* 64-bit (and larger) counters: four limbs, the first one unbounded as a
\* Python int is
time64(hi, lo) == <<hi[1], hi[2], lo[1], lo[2]>>
time_lo(t) == <<t[3], t[4]>>
time_hi(t) == <<t[1] % B16, t[2]>>
time_shr32(t) == <<t[1], t[2]>>

\* t + 1 without wrap-around
time_inc(t) ==
    IF t[4] + 1 < B16 THEN <<t[1], t[2], t[3], t[4] + 1>>
    ELSE IF t[3] + 1 < B16 THEN <<t[1], t[2], t[3] + 1, 0>>
    ELSE IF t[2] + 1 < B16 THEN <<t[1], t[2] + 1, 0, 0>>
    ELSE <<t[1] + 1, 0, 0, 0>>

\* a >= b
time_ge(a, b) ==
    \/ a[1] > b[1]
    \/ a[1] = b[1] /\ a[2] > b[2]
    \/ a[1] = b[1] /\ a[2] = b[2] /\ a[3] > b[3]
    \/ a[1] = b[1] /\ a[2] = b[2] /\ a[3] = b[3] /\ a[4] >= b[4]

\* ------------------------------------------------------------------------
\* CSR addresses and bit positions
\* ------------------------------------------------------------------------
CSR_MSTATUS == 768
CSR_MISA == 769
CSR_MIE == 772
CSR_MTVEC == 773
CSR_MSCRATCH == 832
CSR_MEPC == 833
CSR_MCAUSE == 834
CSR_MTVAL == 835
CSR_MIP == 836
CSR_MTIME_LO == 1984
CSR_MTIME_HI == 1985
CSR_MTIMECMP_LO == 1986
CSR_MTIMECMP_HI == 1987
CSR_MVENDORID == 3857
CSR_MARCHID == 3858
CSR_MIMPID == 3859
CSR_MHARTID == 3860

CSR_RO == {3857, 3858, 3859, 3860}
CSR_NOWRITE == {769, 2818, 2946, 1952, 1953, 1954}

\* the CSR addresses the model keeps (the source keeps all 4096)
CsrAddrs == {768, 769, 772, 773, 832, 833, 834, 835, 836,
             1984, 1985, 1986, 1987, 3857, 3858, 3859, 3860, 2818, 1952,
             2946, 1953, 1954}

\* mstatus.MIE | mstatus.MPIE, mstatus.MPP, mip/mie.MTIP, mip/mie.MEIP
MIE_BIT == 3
MPIE_BIT == 7
MTI_BIT == 7
MEI_BIT == 11

\* trap causes
MTI_CAUSE == <<32768, 7>>
MEI_CAUSE == <<32768, 11>>

\* ------------------------------------------------------------------------
\* The emulator as one value m = [cpu, ram, tmr, exc, ev, io]:
\*   cpu  the CPU object's fields, ram the RAM object's, tmr the MMIOTimer's;
\*   exc  the Python exception propagating out of the current call ("none"
\*        while there is none): every operator below returns at once when
\*        a call it made raised;
\*   ev   the calls of CPU.trap made during the current API call, in order
\*        (observation only: no operator reads it);
\*   io   the calls of the read32 / write32 of registered peripherals made
\*        during the current API call, in order (observation only).
\* ------------------------------------------------------------------------
raise(m, e) == [m EXCEPT !.exc = e]

\* ------------------------------------------------------------------------
\* ram.py: RAM and RAM_MMIO
\* ------------------------------------------------------------------------
\* RAM.__init__: the bytearray holds size + padding bytes
PADDING == 4
MemLen(ram) == ram.size + PADDING

\* the variants that call self.check(addr, n) before every access
SAFE_KINDS == {"SafeRAM", "SafeRAMOffset", "SafeRAM_MMIO"}

\* SafeRAMOffset: addr -= self.base_addr (negative when addr is below the base)
below_base(ram, addr) == ram.kind = "SafeRAMOffset" /\ ltu32(addr, ram.base_addr)
mem_addr(ram, addr) ==
    IF ram.kind = "SafeRAMOffset" THEN sub32(addr, ram.base_addr) ELSE addr
mem_index(ram, addr) == mem_addr(ram, addr)[2]

\* SafeRAM.check(addr, n) passes
check(ram, addr, n) ==
    ~below_base(ram, addr)
    /\ mem_addr(ram, addr)[1] = 0 /\ mem_index(ram, addr) + n <= ram.size

\* the access to n bytes raises nothing: check passes in the safe variants;
\* in the fast ones there is no IndexError for memory[addr] ..
\* memory[addr + n - 1] (and, for an aligned word, for memory32[addr >> 2])
in_bytes(ram, addr, n) ==
    IF ram.kind \in SAFE_KINDS THEN check(ram, addr, n)
    ELSE addr[1] = 0 /\ addr[2] + n <= MemLen(ram)

\* peripherals.py: the MMIOTimer register addresses
REG_MTIMECMP_LO == <<512, 16384>>
REG_MTIMECMP_HI == <<512, 16388>>
REG_MTIME_LO == <<512, 49144>>
REG_MTIME_HI == <<512, 49148>>
REG_BASE == REG_MTIMECMP_LO
REG_END == <<512, 49152>>

\* MMIOTimer.read32: [val, exc]
read32(m, addr) ==
    IF addr = REG_MTIME_LO THEN [val |-> time_lo(m.cpu.mtime), exc |-> "none"]
    ELSE IF addr = REG_MTIME_HI THEN [val |-> time_shr32(m.cpu.mtime), exc |-> "none"]
    ELSE IF addr = REG_MTIMECMP_LO THEN [val |-> time_lo(m.cpu.mtimecmp), exc |-> "none"]
    ELSE IF addr = REG_MTIMECMP_HI THEN [val |-> time_shr32(m.cpu.mtimecmp), exc |-> "none"]
    ELSE [val |-> Zero, exc |-> "MemoryAccessError"]

\* MMIOTimer.write32, first part: latch the half and mark it updated
write32_latch(tmr, addr, value) ==
    IF addr = REG_MTIMECMP_LO
    THEN [tmr EXCEPT !.mtimecmp_lo = value, !.mtimecmp_lo_updated = TRUE]
    ELSE IF addr = REG_MTIMECMP_HI
    THEN [tmr EXCEPT !.mtimecmp_hi = value, !.mtimecmp_hi_updated = TRUE]
    ELSE IF addr = REG_MTIME_LO
    THEN [tmr EXCEPT !.mtime_lo = value, !.mtime_lo_updated = TRUE]
    ELSE [tmr EXCEPT !.mtime_hi = value, !.mtime_hi_updated = TRUE]

\* MMIOTimer.write32, second part: commit mtimecmp once both halves are in
write32_commit_mtimecmp(m) ==
    IF m.tmr.mtimecmp_lo_updated /\ m.tmr.mtimecmp_hi_updated
    THEN [m EXCEPT !.cpu.mtimecmp = time64(m.tmr.mtimecmp_hi, m.tmr.mtimecmp_lo),
                   !.tmr.mtimecmp_lo_updated = FALSE,
                   !.tmr.mtimecmp_hi_updated = FALSE]
    ELSE m

\* the commit of mtime that does not wait for the other half
write32_commit_mtime_early(m) ==
    IF m.tmr.mtime_lo_updated \/ m.tmr.mtime_hi_updated
    THEN [m EXCEPT !.cpu.mtime = time64(m.tmr.mtime_hi, m.tmr.mtime_lo),
                   !.tmr.mtime_lo_updated = FALSE,
                   !.tmr.mtime_hi_updated = FALSE]
    ELSE m

\* MMIOTimer.write32, third part: commit mtime once both halves are in
write32_commit_mtime(m) ==
    IF m.tmr.mtime_lo_updated /\ m.tmr.mtime_hi_updated
    THEN [m EXCEPT !.cpu.mtime = time64(m.tmr.mtime_hi, m.tmr.mtime_lo),
                   !.tmr.mtime_lo_updated = FALSE,
                   !.tmr.mtime_hi_updated = FALSE]
    ELSE m

\* browser_peripherals.py, MMIOTimer.write32: a half of mtimecmp goes
\* straight into cpu.mtimecmp, a half of mtime is latched
browser_write32_store(m, addr, value) ==
    IF addr = REG_MTIMECMP_LO
    THEN [m EXCEPT !.cpu.mtimecmp = time64(<<@[1], @[2]>>, value)]
    ELSE IF addr = REG_MTIMECMP_HI
    THEN [m EXCEPT !.cpu.mtimecmp = time64(value, time_lo(@))]
    ELSE [m EXCEPT !.tmr = write32_latch(m.tmr, addr, value)]

\* browser_peripherals.py, MMIOTimer.write32
browser_write32(m, addr, value) ==
    IF addr \in {REG_MTIMECMP_LO, REG_MTIMECMP_HI, REG_MTIME_LO, REG_MTIME_HI}
    THEN write32_commit_mtime(browser_write32_store(m, addr, value))
    ELSE raise(m, "MemoryAccessError")

\* MMIOTimer.write32
write32(m, addr, value) ==
    IF addr \in {REG_MTIMECMP_LO, REG_MTIMECMP_HI, REG_MTIME_LO, REG_MTIME_HI}
    THEN write32_commit_mtime(write32_commit_mtimecmp(
             [m EXCEPT !.tmr = write32_latch(m.tmr, addr, value)]))
    ELSE raise(m, "MemoryAccessError")

\* the classes with an mmio_ranges list
MMIO_KINDS == {"RAM_MMIO", "SafeRAM_MMIO"}

\* register_peripheral: the entry (REG_BASE, REG_END, read32, write32) of the
\* MMIOTimer and of a PtyUART built with reg_base
TimerRange == [base |-> REG_BASE, end |-> REG_END, dev |-> "timer"]
BrowserTimerRange == [base |-> REG_BASE, end |-> REG_END, dev |-> "browser_timer"]
UartRange(reg_base) ==
    [base |-> reg_base, end |-> add32(reg_base, w32(8)), dev |-> "uart"]

\* mmio_addr_base <= addr < mmio_addr_end
in_range(r, addr) == geu32(addr, r.base) /\ ltu32(addr, r.end)

\* the entries of mmio_ranges that hold addr (a plain RAM has no mmio_ranges)
mmio_matches(ram, addr) ==
    {i \in DOMAIN ram.mmio_ranges : in_range(ram.mmio_ranges[i], addr)}

\* the loop over mmio_ranges returns at some entry
in_mmio(ram, addr) == ram.kind \in MMIO_KINDS /\ mmio_matches(ram, addr) # {}

\* the loop over mmio_ranges that keeps going and returns at the last match
mmio_range_last(ram, addr) ==
    ram.mmio_ranges[CHOOSE i \in mmio_matches(ram, addr) :
                        \A j \in mmio_matches(ram, addr) : j <= i]

\* the loop over mmio_ranges returns at the first entry that holds addr
mmio_range(ram, addr) ==
    ram.mmio_ranges[CHOOSE i \in mmio_matches(ram, addr) :
                        \A j \in mmio_matches(ram, addr) : i <= j]

\* the record kept in m.io for one call of a peripheral's read32 / write32
PeripheralCall(r, op, addr) == [dev |-> r.dev, base |-> r.base, op |-> op, addr |-> addr]

\* PtyUART.read32 with an empty RX buffer: [val, exc]
RX_EMPTY == <<32768, 0>>
uart_read32(r, addr) ==
    IF addr = add32(r.base, w32(4)) THEN [val |-> RX_EMPTY, exc |-> "none"]
    ELSE IF addr = r.base THEN [val |-> Zero, exc |-> "none"]
    ELSE [val |-> Zero, exc |-> "MemoryAccessError"]

\* PtyUART.write32: the byte goes to the pty
uart_write32(m, r, addr, value) ==
    IF addr = r.base THEN m ELSE raise(m, "MemoryAccessError")

\* mmio_read32(addr) of the entry r: [val, exc, io]
mmio_read32(m, r, addr) ==
    [val |-> IF r.dev \in {"timer", "browser_timer"} THEN read32(m, addr).val
             ELSE uart_read32(r, addr).val,
     exc |-> IF r.dev \in {"timer", "browser_timer"} THEN read32(m, addr).exc
             ELSE uart_read32(r, addr).exc,
     io |-> <<PeripheralCall(r, "read32", addr)>>]

\* mmio_write32(addr, value) of the entry r
mmio_write32(m, r, addr, value) ==
    IF r.dev = "timer"
    THEN write32([m EXCEPT !.io = Append(@, PeripheralCall(r, "write32", addr))],
                 addr, value)
    ELSE IF r.dev = "browser_timer"
    THEN browser_write32([m EXCEPT !.io = Append(@, PeripheralCall(r, "write32", addr))],
                         addr, value)
    ELSE uart_write32([m EXCEPT !.io = Append(@, PeripheralCall(r, "write32", addr))],
                      r, addr, value)

\* the little-endian word at memory[i .. i+3]
word_at(ram, i) ==
    <<ram.memory[i + 3] * 256 + ram.memory[i + 2],
      ram.memory[i + 1] * 256 + ram.memory[i]>>

\* RAM.load_word / RAM_MMIO.load_word: [val, exc]
load_word(m, addr) ==
    IF in_mmio(m.ram, addr) THEN mmio_read32(m, mmio_range(m.ram, addr), addr)
    ELSE IF in_bytes(m.ram, addr, 4)
    THEN [val |-> word_at(m.ram, mem_index(m.ram, addr)), exc |-> "none", io |-> <<>>]
    ELSE [val |-> Zero, exc |-> "MemoryAccessError", io |-> <<>>]

\* RAM.load_byte: [val, exc], val the Python int returned
load_byte(m, addr, signed) ==
    IF in_bytes(m.ram, addr, 1)
    THEN LET val == m.ram.memory[mem_index(m.ram, addr)]
         IN [val |-> IF ~signed \/ val < 128 THEN val ELSE val - 256, exc |-> "none",
             io |-> <<>>]
    ELSE [val |-> 0, exc |-> "MemoryAccessError", io |-> <<>>]

\* RAM.load_half: [val, exc], val the Python int returned
load_half(m, addr, signed) ==
    IF in_bytes(m.ram, addr, 2)
    THEN LET val == m.ram.memory[mem_index(m.ram, addr)]
                        + 256 * m.ram.memory[mem_index(m.ram, addr) + 1]
         IN [val |-> IF ~signed \/ val < 32768 THEN val ELSE val - B16, exc |-> "none",
             io |-> <<>>]
    ELSE [val |-> 0, exc |-> "MemoryAccessError", io |-> <<>>]

\* the bytes b (a sequence) written one after the other from index i on, up to
\* the first index that raises IndexError
RECURSIVE put_bytes(_, _, _)
put_bytes(ram, i, b) ==
    IF b = <<>> \/ i >= MemLen(ram) THEN ram
    ELSE put_bytes([ram EXCEPT !.memory[i] = Head(b)], i + 1, Tail(b))

\* byte-wise store of the sequence b at addr; MemoryAccessError at the first
\* index out of range, the bytes before it stay written
store_bytes(m, addr, b) ==
    IF m.ram.kind \in SAFE_KINDS
    THEN IF check(m.ram, addr, Len(b))
         THEN [m EXCEPT !.ram = put_bytes(m.ram, mem_index(m.ram, addr), b)]
         ELSE raise(m, "MemoryAccessError")
    ELSE IF addr[1] # 0 THEN raise(m, "MemoryAccessError")
    ELSE IF addr[2] + Len(b) <= MemLen(m.ram)
    THEN [m EXCEPT !.ram = put_bytes(m.ram, addr[2], b)]
    ELSE raise([m EXCEPT !.ram = put_bytes(m.ram, addr[2], b)], "MemoryAccessError")

\* RAM.store_byte
store_byte(m, addr, value) == store_bytes(m, addr, <<value % 256>>)

\* RAM.store_half
store_half(m, addr, value) ==
    store_bytes(m, addr, <<value % 256, (value \div 256) % 256>>)

\* RAM.store_word / RAM_MMIO.store_word
store_word(m, addr, value) ==
    IF in_mmio(m.ram, addr) THEN mmio_write32(m, mmio_range(m.ram, addr), addr, value)
    ELSE IF addr[2] % 4 = 0 /\ ~in_bytes(m.ram, addr, 4)
    THEN raise(m, "MemoryAccessError")
    ELSE store_bytes(m, addr, <<value[2] % 256, value[2] \div 256,
                                value[1] % 256, value[1] \div 256>>)

\* CPU.TRAP_CAUSE_NAMES
TRAP_CAUSE_NAMES ==
    [c \in {0, 1, 2, 3, 4, 5, 6, 7, 8, 9, 11, 12, 13, 15} |->
        CASE c = 0 -> "Instruction address misaligned"
          [] c = 1 -> "Instruction access fault"
          [] c = 2 -> "Illegal instruction"
          [] c = 3 -> "Breakpoint"
          [] c = 4 -> "Load address misaligned"
          [] c = 5 -> "Load access fault"
          [] c = 6 -> "Store/AMO address misaligned"
          [] c = 7 -> "Store/AMO access fault"
          [] c = 8 -> "Environment call from U-mode"
          [] c = 9 -> "Environment call from S-mode"
          [] c = 11 -> "Environment call from M-mode"
          [] c = 12 -> "Instruction page fault"
          [] c = 13 -> "Load page fault"
          [] OTHER -> "Store/AMO page fault"]

\* trap: self.TRAP_CAUSE_NAMES.get(cause, "Unknown")
cause_name(cause) ==
    IF cause = MTI_CAUSE THEN "Machine timer interrupt"
    ELSE IF cause = MEI_CAUSE THEN "Machine external interrupt"
    ELSE IF cause[1] = 0 /\ cause[2] \in DOMAIN TRAP_CAUSE_NAMES
    THEN TRAP_CAUSE_NAMES[cause[2]]
    ELSE "Unknown"

\* ------------------------------------------------------------------------
\* cpu.py: traps
\* ------------------------------------------------------------------------
\* the record kept in m.ev for one call of CPU.trap
TrapCall(cause, mtval, sync, taken) ==
    [cause |-> cause, mtval |-> mtval, sync |-> sync, taken |-> taken,
     name |-> IF taken THEN "" ELSE cause_name(cause)]

\* the trap that leaves mstatus.MIE as it was
trap_keeps_mie(m, cause, mtval, sync) ==
    IF m.cpu.csrs[CSR_MTVEC] = Zero
    THEN [m EXCEPT !.exc = "ExecutionTerminated",
                   !.ev = Append(@, TrapCall(cause, mtval, sync, FALSE))]
    ELSE LET mstatus == m.cpu.csrs[CSR_MSTATUS]
             mie == bit32(mstatus, MIE_BIT)
             cleared == andnot32(mstatus, w32(2^MPIE_BIT))
         IN [m EXCEPT
                !.cpu.csrs = [@ EXCEPT
                    ![CSR_MEPC] = IF sync THEN m.cpu.pc ELSE m.cpu.next_pc,
                    ![CSR_MCAUSE] = cause,
                    ![CSR_MTVAL] = mtval,
                    ![CSR_MSTATUS] = or32(cleared, w32(mie * 2^MPIE_BIT))],
                !.cpu.next_pc = andnot32(m.cpu.csrs[CSR_MTVEC], w32(3)),
                !.ev = Append(@, TrapCall(cause, mtval, sync, TRUE))]

\* the trap that stores pc in mepc also when it is asynchronous
trap_mepc_is_pc(m, cause, mtval, sync) ==
    IF m.cpu.csrs[CSR_MTVEC] = Zero
    THEN [m EXCEPT !.exc = "ExecutionTerminated",
                   !.ev = Append(@, TrapCall(cause, mtval, sync, FALSE))]
    ELSE LET mstatus == m.cpu.csrs[CSR_MSTATUS]
             mie == bit32(mstatus, MIE_BIT)
             cleared == andnot32(mstatus, w32(2^MIE_BIT + 2^MPIE_BIT))
         IN [m EXCEPT
                !.cpu.csrs = [@ EXCEPT
                    ![CSR_MEPC] = m.cpu.pc,
                    ![CSR_MCAUSE] = cause,
                    ![CSR_MTVAL] = mtval,
                    ![CSR_MSTATUS] = or32(cleared, w32(mie * 2^MPIE_BIT))],
                !.cpu.next_pc = andnot32(m.cpu.csrs[CSR_MTVEC], w32(3)),
                !.ev = Append(@, TrapCall(cause, mtval, sync, TRUE))]

\* the trap that updates the trap CSRs before it looks for the handler
trap_updates_first(m, cause, mtval, sync) ==
    LET mstatus == m.cpu.csrs[CSR_MSTATUS]
        mie == bit32(mstatus, MIE_BIT)
        cleared == andnot32(mstatus, w32(2^MIE_BIT + 2^MPIE_BIT))
        taken == m.cpu.csrs[CSR_MTVEC] # Zero
    IN [m EXCEPT
           !.cpu.csrs = [@ EXCEPT
               ![CSR_MEPC] = IF sync THEN m.cpu.pc ELSE m.cpu.next_pc,
               ![CSR_MCAUSE] = cause,
               ![CSR_MTVAL] = mtval,
               ![CSR_MSTATUS] = or32(cleared, w32(mie * 2^MPIE_BIT))],
           !.cpu.next_pc = IF taken THEN andnot32(m.cpu.csrs[CSR_MTVEC], w32(3)) ELSE @,
           !.exc = IF taken THEN @ ELSE "ExecutionTerminated",
           !.ev = Append(@, TrapCall(cause, mtval, sync, taken))]

\* CPU.trap(cause, mtval, sync)
trap(m, cause, mtval, sync) ==
    IF m.cpu.csrs[CSR_MTVEC] = Zero
    THEN [m EXCEPT !.exc = "ExecutionTerminated",
                   !.ev = Append(@, TrapCall(cause, mtval, sync, FALSE))]
    ELSE LET mstatus == m.cpu.csrs[CSR_MSTATUS]
             mie == bit32(mstatus, MIE_BIT)
             cleared == andnot32(mstatus, w32(2^MIE_BIT + 2^MPIE_BIT))
         IN [m EXCEPT
                !.cpu.csrs = [@ EXCEPT
                    ![CSR_MEPC] = IF sync THEN m.cpu.pc ELSE m.cpu.next_pc,
                    ![CSR_MCAUSE] = cause,
                    ![CSR_MTVAL] = mtval,
                    ![CSR_MSTATUS] = or32(cleared, w32(mie * 2^MPIE_BIT))],
                !.cpu.next_pc = andnot32(m.cpu.csrs[CSR_MTVEC], w32(3)),
                !.ev = Append(@, TrapCall(cause, mtval, sync, TRUE))]

\* CPU.bypassed_trap_return(cause, mtval=0)
bypassed_trap_return(m, cause) ==
    [m EXCEPT !.cpu.csrs = [@ EXCEPT
                  ![CSR_MEPC] = m.cpu.pc,
                  ![CSR_MCAUSE] = cause,
                  ![CSR_MTVAL] = Zero,
                  ![CSR_MSTATUS] = or32(@, w32(2^MPIE_BIT))]]

\* cpu.registers[rd] = value
set_reg(m, rd, value) == [m EXCEPT !.cpu.registers[rd] = value]

\* inst >> 20, sign-extended from 12 bits (imm_i, a Python int)
imm_i_of(inst) ==
    LET imm == inst[1] \div 16 IN IF imm >= 2048 THEN imm - 4096 ELSE imm

\* ((inst >> 7) & 0x1F) | ((inst >> 25) << 5), sign-extended (imm_s)
imm_s_of(inst) ==
    LET imm == ((inst[2] \div 128) % 32) + 32 * (inst[1] \div 512)
    IN IF imm >= 2048 THEN imm - 4096 ELSE imm

\* ------------------------------------------------------------------------
\* cpu.py: exec_SYSTEM
\* ------------------------------------------------------------------------
INST_ECALL == <<0, 115>>
INST_EBREAK == <<16, 115>>
INST_MRET == <<12320, 115>>
INST_WFI == <<4176, 115>>

\* the record kept in m.ev for one call of the installed ecall handler
HandlerCall == [handler |-> "handle_ecall"]

\* ---- syscalls.py: the Newlib system calls --------------------------------
\* Python's None in a field of the machine
NONE == <<>>

\* Syscall: the identifiers a7 selects a handler with
SYS_EXIT == 93
SYS_SBRK == 214
SYS_WRITE == 64

\* SyscallHandler.handle_exit: advances pc and raises ExecutionTerminated
handle_exit(m) ==
    [m EXCEPT !.cpu.pc = m.cpu.next_pc, !.exc = "ExecutionTerminated"]

\* old_heap_end + increment >= stack_bottom, a comparison of Python integers:
\* the sum is not reduced to 32 bits, so a sum that carries out of 32 bits
\* is above every stack_bottom
sbrk_collides(old_heap_end, increment, stack_bottom) ==
    \/ ltu32(add32(old_heap_end, increment), old_heap_end)
    \/ geu32(add32(old_heap_end, increment), stack_bottom)

\* the handler that moves the heap end although the new end collides
handle_sbrk_unchecked(m) ==
    IF m.mach.stack_bottom = NONE THEN raise(m, "InvalidSyscallError")
    ELSE [m EXCEPT !.mach.heap_end = add32(m.mach.heap_end, m.cpu.registers[10]),
                   !.cpu.registers[10] = m.mach.heap_end]

\* SyscallHandler.handle_sbrk
handle_sbrk(m) ==
    IF m.mach.stack_bottom = NONE THEN raise(m, "InvalidSyscallError")
    ELSE IF sbrk_collides(m.mach.heap_end, m.cpu.registers[10], m.mach.stack_bottom)
    THEN [m EXCEPT !.cpu.registers[10] = <<B16 - 1, B16 - 1>>]
    ELSE [m EXCEPT !.mach.heap_end = add32(m.mach.heap_end, m.cpu.registers[10]),
                   !.cpu.registers[10] = m.mach.heap_end]

\* browser_syscalls.py, BrowserSyscallHandler.handle: handle_exit and
\* handle_sbrk as in syscalls.py; a7 that is no key of the dictionary stores
\* -errno.ENOSYS, the Python integer -38, in a0
ENOSYS == 38
BrowserSyscallHandler_handle(m) ==
    IF m.cpu.registers[17] = w32(SYS_EXIT) THEN handle_exit(m)
    ELSE IF m.cpu.registers[17] = w32(SYS_SBRK) THEN handle_sbrk(m)
    ELSE [m EXCEPT !.cpu.registers[10] = w32(0 - ENOSYS)]

\* errno.EBADF
EBADF == 9

\* len(self.ram.load_binary(addr, count)): the slice memory[addr:addr+count]
\* ends where the bytearray ends
binary_len(ram, addr, count) ==
    IF addr[1] # 0 \/ addr[2] >= MemLen(ram) THEN 0
    ELSE IF count[1] # 0 \/ addr[2] + count[2] > MemLen(ram) THEN MemLen(ram) - addr[2]
    ELSE count[2]

\* SafeRAM.load_binary raises for a range that leaves the RAM
load_binary_raises(ram, addr, count) ==
    ram.kind \in SAFE_KINDS /\ (count[1] # 0 \/ ~check(ram, addr, count[2]))

\* SyscallHandler.handle_write: fd 1 and 2 are printed and a0 = count; fd 0
\* is in fd_map and goes to os.write, which writes the bytes or fails with
\* the errno of the host (m.mach.os_error, 0 for none); any other fd is
\* unknown.  The failures store the Python integer -errno in a0.
handle_write(m) ==
    IF load_binary_raises(m.ram, m.cpu.registers[11], m.cpu.registers[12])
    THEN raise(m, "MemoryAccessError")
    ELSE IF m.cpu.registers[10] \in {w32(1), w32(2)}
    THEN [m EXCEPT !.cpu.registers[10] = m.cpu.registers[12]]
    ELSE IF m.cpu.registers[10] = Zero
    THEN IF m.mach.os_error = 0
         THEN [m EXCEPT !.cpu.registers[10] =
                  w32(binary_len(m.ram, m.cpu.registers[11], m.cpu.registers[12]))]
         ELSE [m EXCEPT !.cpu.registers[10] = w32(0 - m.mach.os_error)]
    ELSE [m EXCEPT !.cpu.registers[10] = w32(0 - EBADF)]

\* SyscallHandler.handle: the handler a7 selects in syscall_handlers; a7
\* that is no key of the dictionary raises KeyError
SyscallHandler_handle(m) ==
    IF m.cpu.registers[17] = w32(SYS_EXIT) THEN handle_exit(m)
    ELSE IF m.cpu.registers[17] = w32(SYS_SBRK) THEN handle_sbrk(m)
    ELSE IF m.cpu.registers[17] = w32(SYS_WRITE) THEN handle_write(m)
    ELSE raise(m, "KeyError")

\* the call cpu.handle_ecall() of an installed Python handler.  The handler
\* is an external callback: "handler_returns" stands for one that returns
\* to the CPU, "handler_exits" for one that raises ExecutionTerminated as
\* the _exit syscall does; both calls are logged in m.ev.
handle_ecall(m) ==
    IF m.cpu.handle_ecall = "SyscallHandler.handle"
    THEN SyscallHandler_handle([m EXCEPT !.ev = Append(@, HandlerCall)])
    ELSE IF m.cpu.handle_ecall = "BrowserSyscallHandler.handle"
    THEN BrowserSyscallHandler_handle([m EXCEPT !.ev = Append(@, HandlerCall)])
    ELSE IF m.cpu.handle_ecall = "handler_exits"
    THEN [m EXCEPT !.exc = "ExecutionTerminated", !.ev = Append(@, HandlerCall)]
    ELSE [m EXCEPT !.ev = Append(@, HandlerCall)]

\* the ECALL that prefers an installed Python handler to the guest's trap
\* handler
exec_ECALL_handler_first(m) ==
    IF m.cpu.handle_ecall # "None"
    THEN IF handle_ecall(m).exc # "none"
         THEN handle_ecall(m)
         ELSE bypassed_trap_return(handle_ecall(m), w32(11))
    ELSE IF m.cpu.csrs[CSR_MTVEC] # Zero
    THEN trap(m, w32(11), Zero, TRUE)
    ELSE raise(m, "MachineError")

\* exec_SYSTEM, ECALL: cpu.bypassed_trap_return(cause=11) once the handler
\* has returned
ecall_handled(m) == IF m.exc # "none" THEN m ELSE bypassed_trap_return(m, w32(11))

\* exec_SYSTEM, ECALL
exec_ECALL(m) ==
    IF m.cpu.csrs[CSR_MTVEC] = Zero /\ m.cpu.handle_ecall # "None"
    THEN ecall_handled(handle_ecall(m))
    ELSE IF m.cpu.csrs[CSR_MTVEC] # Zero
    THEN trap(m, w32(11), Zero, TRUE)
    ELSE raise(m, "MachineError")

\* the MRET mutant that forgets to re-arm MPIE
exec_MRET_keeps_mpie(m) ==
    LET mepc == m.cpu.csrs[CSR_MEPC]
    IN IF and32(mepc, w32(m.cpu.alignment_mask)) # Zero
       THEN trap(m, Zero, mepc, TRUE)
       ELSE LET mstatus == m.cpu.csrs[CSR_MSTATUS]
                mpie == bit32(mstatus, MPIE_BIT)
            IN [m EXCEPT !.cpu.next_pc = mepc,
                         !.cpu.csrs[CSR_MSTATUS] =
                             or32(andnot32(mstatus, w32(2^MIE_BIT)), w32(mpie * 2^MIE_BIT))]

\* exec_SYSTEM, MRET
exec_MRET(m) ==
    LET mepc == m.cpu.csrs[CSR_MEPC]
    IN IF and32(mepc, w32(m.cpu.alignment_mask)) # Zero
       THEN trap(m, Zero, mepc, TRUE)
       ELSE LET mstatus == m.cpu.csrs[CSR_MSTATUS]
                mpie == bit32(mstatus, MPIE_BIT)
                mie_set == or32(andnot32(mstatus, w32(2^MIE_BIT)), w32(mpie * 2^MIE_BIT))
            IN [m EXCEPT !.cpu.next_pc = mepc,
                         !.cpu.csrs[CSR_MSTATUS] = or32(mie_set, w32(2^MPIE_BIT))]

\* a7 >= 0xFFFF0000
is_debug_call(a7) == a7[1] = B16 - 1

\* load_cstring(addr, max_len=1024) returns a string: the start address is
\* inside the memory (checked by the safe variants, an empty slice in the
\* fast ones) and memory[addr : min(addr + max_len, size)] holds a NUL
MAX_LEN == 1024
cstring_found(ram, addr) ==
    /\ ~below_base(ram, addr)
    /\ mem_addr(ram, addr)[1] = 0
    /\ \E i \in 0..(ram.size - 1) :
          /\ mem_index(ram, addr) <= i /\ i < mem_index(ram, addr) + MAX_LEN
          /\ ram.memory[i] = 0

\* RAM.load_cstring as exec_SYSTEM uses it: the string goes to the logger,
\* only the exception of the call reaches the emulator
load_cstring(m, addr) ==
    IF cstring_found(m.ram, addr) THEN m ELSE raise(m, "MemoryAccessError")

\* a7 of the in-band calls that log a string
LOG_STR_CALLS == {<<B16 - 1, 2>>, <<B16 - 1, 3>>, <<B16 - 1, 4>>}

\* exec_SYSTEM, EBREAK.  The in-band calls (a7 >= 0xFFFF0000) return at
\* once without a logger; with one they log, and the three string calls
\* read the C string at a0 first.
exec_EBREAK(m) ==
    IF is_debug_call(m.cpu.registers[17])
    THEN IF m.cpu.logger = "None" THEN m
         ELSE IF m.cpu.registers[17] \in LOG_STR_CALLS
         THEN load_cstring(m, m.cpu.registers[10])
         ELSE m
    ELSE IF m.cpu.csrs[CSR_MTVEC] = Zero
    THEN raise(bypassed_trap_return(m, w32(3)), "ExecutionTerminated")
    ELSE trap(m, w32(3), Zero, TRUE)

\* exec_SYSTEM, CSR operations: the "Atomic update of mtime" block
csr_commit_mtime(m, csr) ==
    IF csr \in {CSR_MTIME_LO, CSR_MTIME_HI}
    THEN LET lo_upd == m.cpu.mtime_lo_updated \/ csr = CSR_MTIME_LO
             hi_upd == m.cpu.mtime_hi_updated \/ csr = CSR_MTIME_HI
         IN IF lo_upd /\ hi_upd
            THEN LET t == time64(m.cpu.csrs[CSR_MTIME_HI], m.cpu.csrs[CSR_MTIME_LO])
                 IN [m EXCEPT !.cpu.mtime = t,
                              !.cpu.mtime_lo_updated = FALSE,
                              !.cpu.mtime_hi_updated = FALSE,
                              !.cpu.mtip = time_ge(t, m.cpu.mtimecmp)]
            ELSE [m EXCEPT !.cpu.mtime_lo_updated = lo_upd,
                           !.cpu.mtime_hi_updated = hi_upd]
    ELSE m

\* exec_SYSTEM, CSR operations: the "Atomic update of mtimecmp" block
\* (cpu.mtime_countdown, which it also sets, is read nowhere and is left out)
csr_commit_mtimecmp(m, csr) ==
    IF csr \in {CSR_MTIMECMP_LO, CSR_MTIMECMP_HI}
    THEN LET lo_upd == m.cpu.mtimecmp_lo_updated \/ csr = CSR_MTIMECMP_LO
             hi_upd == m.cpu.mtimecmp_hi_updated \/ csr = CSR_MTIMECMP_HI
         IN IF lo_upd /\ hi_upd
            THEN LET t == time64(m.cpu.csrs[CSR_MTIMECMP_HI], m.cpu.csrs[CSR_MTIMECMP_LO])
                 IN [m EXCEPT !.cpu.mtimecmp = t,
                              !.cpu.mtimecmp_lo_updated = FALSE,
                              !.cpu.mtimecmp_hi_updated = FALSE,
                              !.cpu.mtip = time_ge(m.cpu.mtime, t)]
            ELSE [m EXCEPT !.cpu.mtimecmp_lo_updated = lo_upd,
                           !.cpu.mtimecmp_hi_updated = hi_upd]
    ELSE m

\* the CSR write that knows no write-ignored CSRs
csr_write_any(m, funct3, csr, old, rs1_val) ==
    IF funct3 \in {1, 5}
    THEN LET m1 == IF csr = CSR_MTVEC
                   THEN [m EXCEPT !.cpu.csrs[csr] = andnot32(rs1_val, w32(3))]
                   ELSE [m EXCEPT !.cpu.csrs[csr] = rs1_val]
         IN csr_commit_mtimecmp(csr_commit_mtime(m1, csr), csr)
    ELSE IF funct3 \in {2, 6}
    THEN IF rs1_val # Zero
         THEN [m EXCEPT !.cpu.csrs[csr] = or32(old, rs1_val)] ELSE m
    ELSE IF rs1_val # Zero
         THEN [m EXCEPT !.cpu.csrs[csr] = andnot32(old, rs1_val)] ELSE m

\* exec_SYSTEM, CSR operations: the CSRRW / CSRRS / CSRRC write
csr_write(m, funct3, csr, old, rs1_val) ==
    IF funct3 \in {1, 5}
    THEN LET m1 == IF csr = CSR_MTVEC
                   THEN [m EXCEPT !.cpu.csrs[csr] = andnot32(rs1_val, w32(3))]
                   ELSE IF csr \notin CSR_NOWRITE
                   THEN [m EXCEPT !.cpu.csrs[csr] = rs1_val]
                   ELSE m
         IN csr_commit_mtimecmp(csr_commit_mtime(m1, csr), csr)
    ELSE IF funct3 \in {2, 6}
    THEN IF rs1_val # Zero /\ csr \notin CSR_NOWRITE
         THEN [m EXCEPT !.cpu.csrs[csr] = or32(old, rs1_val)] ELSE m
    ELSE IF rs1_val # Zero /\ csr \notin CSR_NOWRITE
         THEN [m EXCEPT !.cpu.csrs[csr] = andnot32(old, rs1_val)] ELSE m

\* exec_SYSTEM, CSR operations: the value presented to rd
csr_read(m, csr, old) ==
    IF csr = CSR_MTIME_LO THEN time_lo(m.cpu.mtime)
    ELSE IF csr = CSR_MTIME_HI THEN time_hi(m.cpu.mtime)
    ELSE IF csr = CSR_MTIMECMP_LO THEN time_lo(m.cpu.mtimecmp)
    ELSE IF csr = CSR_MTIMECMP_HI THEN time_hi(m.cpu.mtimecmp)
    ELSE old

\* exec_SYSTEM, CSR operations: the read-only check.  The source calls
\* cpu.trap and goes on with the instruction (there is no return after it).
csr_ro_check(m, inst, funct3, csr, rs1_val) ==
    IF csr \in CSR_RO /\ (funct3 \in {1, 5} \/ rs1_val # Zero)
    THEN trap(m, w32(2), inst, TRUE)
    ELSE m

\* exec_SYSTEM, CSR operations: rs1_val
csr_operand(m, funct3, rs1) == IF funct3 < 5 THEN m.cpu.registers[rs1] ELSE w32(rs1)

\* the CSR operation that stores mstatus as it was written
csr_keep_mpp(m, csr) == m

\* exec_SYSTEM, CSR operations: the MPP field of mstatus is forced to 0b11
csr_force_mpp(m, csr) ==
    IF csr = CSR_MSTATUS
    THEN [m EXCEPT !.cpu.csrs[CSR_MSTATUS] = or32(@, <<0, 6144>>)]
    ELSE m

\* exec_SYSTEM, CSR operations: if rd != 0: cpu.registers[rd] = old
csr_to_rd(m, rd, csr, old) ==
    IF rd # 0 THEN set_reg(m, rd, csr_read(m, csr, old)) ELSE m

\* exec_SYSTEM, CSR operations: what follows the read-only check (nothing, if
\* the trap raised)
csr_after_check(m, rd, funct3, csr, old, rs1_val) ==
    IF m.exc # "none" THEN m
    ELSE csr_to_rd(csr_force_mpp(csr_write(m, funct3, csr, old, rs1_val), csr),
                   rd, csr, old)

\* exec_SYSTEM, CSR operations (funct3 in 1, 2, 3, 5, 6, 7)
exec_CSR(m, inst, rd, funct3, rs1) ==
    csr_after_check(csr_ro_check(m, inst, funct3, inst[1] \div 16,
                                 csr_operand(m, funct3, rs1)),
                    rd, funct3, inst[1] \div 16, m.cpu.csrs[inst[1] \div 16],
                    csr_operand(m, funct3, rs1))

\* exec_SYSTEM
exec_SYSTEM(m, inst, rd, funct3, rs1, rs2, funct7) ==
    IF inst = INST_ECALL THEN exec_ECALL(m)
    ELSE IF inst = INST_MRET THEN exec_MRET(m)
    ELSE IF inst = INST_EBREAK THEN exec_EBREAK(m)
    ELSE IF funct3 \in {1, 2, 3, 5, 6, 7} THEN exec_CSR(m, inst, rd, funct3, rs1)
    ELSE IF inst = INST_WFI THEN m
    ELSE trap(m, w32(2), inst, TRUE)

\* ------------------------------------------------------------------------
\* cpu.py: the other opcode handlers
\* ------------------------------------------------------------------------
\* 1 or 0 as a register value (Python int(bool))
bool32(b) == IF b THEN w32(1) ELSE Zero

\* ---- the M extension (exec_Rtype, funct7 == 0x01) ---------------------------
\* the product of two 16-bit numbers as <<hi, lo>>
mul16(x, y) ==
    LET p0 == (x % 256) * y
        p1 == (x \div 256) * y
        lo == (p0 % B16) + (p1 % 256) * 256
    IN <<(p0 \div B16) + (p1 \div 256) + (lo \div B16), lo % B16>>

\* the 64-bit product of two unsigned words, as four 16-bit limbs
mul64(a, b) ==
    LET s1 == mul16(a[2], b[2])[1] + mul16(a[2], b[1])[2] + mul16(a[1], b[2])[2]
        s2 == mul16(a[2], b[1])[1] + mul16(a[1], b[2])[1] + mul16(a[1], b[1])[2]
              + (s1 \div B16)
    IN <<(mul16(a[1], b[1])[1] + (s2 \div B16)) % B16, s2 % B16, s1 % B16,
         mul16(a[2], b[2])[2]>>

\* (a * b) & 0xFFFFFFFF (the same for signed and unsigned operands)
mul32(a, b) == <<mul64(a, b)[3], mul64(a, b)[4]>>

\* signed32(a) < 0, -a and |signed32(a)| as unsigned words
is_neg32(a) == a[1] >= 32768
neg32(a) == sub32(<<0, 0>>, a)
abs32(a) == IF is_neg32(a) THEN neg32(a) ELSE a

\* ((a * b) >> 32) & 0xFFFFFFFF for unsigned a and b
mulhu32(a, b) == <<mul64(a, b)[1], mul64(a, b)[2]>>

\* ((signed32(a) * b) >> 32) & 0xFFFFFFFF for unsigned b
mulhsu32(a, b) == IF is_neg32(a) THEN sub32(mulhu32(a, b), b) ELSE mulhu32(a, b)

\* ((signed32(a) * signed32(b)) >> 32) & 0xFFFFFFFF
mulh32(a, b) == IF is_neg32(b) THEN sub32(mulhsu32(a, b), a) ELSE mulhsu32(a, b)

\* quotient and remainder of an unsigned word by 0 < d < 2^16: long division
\* over the four bytes of a
udiv_short(a, d) ==
    LET t3 == a[1] \div 256
        t2 == (t3 % d) * 256 + (a[1] % 256)
        t1 == (t2 % d) * 256 + (a[2] \div 256)
        t0 == (t1 % d) * 256 + (a[2] % 256)
    IN [q |-> <<(t3 \div d) * 256 + (t2 \div d), (t1 \div d) * 256 + (t0 \div d)>>,
        r |-> <<0, t0 % d>>]

\* quotient and remainder of unsigned words for b >= 2^16: the quotient by
\* 2b, doubled and corrected
RECURSIVE udiv_long(_, _)
udiv_long(a, b) ==
    IF ltu32(a, b) THEN [q |-> <<0, 0>>, r |-> a]
    ELSE IF b[1] >= 32768 THEN [q |-> <<0, 1>>, r |-> sub32(a, b)]
    ELSE LET h == udiv_long(a, add32(b, b))
         IN IF geu32(h.r, b)
            THEN [q |-> add32(add32(h.q, h.q), <<0, 1>>), r |-> sub32(h.r, b)]
            ELSE [q |-> add32(h.q, h.q), r |-> h.r]

\* quotient and remainder of unsigned words, b # 0 (dividend // divisor and
\* dividend % divisor)
udivmod(a, b) == IF b[1] = 0 THEN udiv_short(a, b[2]) ELSE udiv_long(a, b)

\* int(dividend / divisor) & 0xFFFFFFFF: the quotient rounded toward zero
\* (the float quotient of two 32-bit integers truncates to the exact one)
trunc_div(a, b) ==
    IF is_neg32(a) # is_neg32(b)
    THEN neg32(udivmod(abs32(a), abs32(b)).q)
    ELSE udivmod(abs32(a), abs32(b)).q

\* (dividend // divisor) & 0xFFFFFFFF for signed operands: the quotient
\* rounded toward minus infinity
floor_div(a, b) ==
    IF is_neg32(a) # is_neg32(b) /\ udivmod(abs32(a), abs32(b)).r # <<0, 0>>
    THEN sub32(trunc_div(a, b), <<0, 1>>)
    ELSE trunc_div(a, b)

\* (dividend - int(dividend / divisor) * divisor) & 0xFFFFFFFF
trunc_rem(a, b) == sub32(a, mul32(trunc_div(a, b), b))

MIN_INT == <<32768, 0>>
MINUS_ONE == <<B16 - 1, B16 - 1>>

\* exec_Rtype, DIV with floor division in place of the truncating one
exec_DIV_floor(a, b) ==
    IF b = <<0, 0>> THEN MINUS_ONE
    ELSE IF a = MIN_INT /\ b = MINUS_ONE THEN MIN_INT
    ELSE floor_div(a, b)

\* exec_Rtype, DIV
exec_DIV(a, b) ==
    IF b = <<0, 0>> THEN MINUS_ONE
    ELSE IF a = MIN_INT /\ b = MINUS_ONE THEN MIN_INT
    ELSE trunc_div(a, b)

\* exec_Rtype, DIVU
exec_DIVU(a, b) == IF b = <<0, 0>> THEN MINUS_ONE ELSE udivmod(a, b).q

\* exec_Rtype, REM
exec_REM(a, b) ==
    IF b = <<0, 0>> THEN a
    ELSE IF a = MIN_INT /\ b = MINUS_ONE THEN <<0, 0>>
    ELSE trunc_rem(a, b)

\* exec_Rtype, REMU
exec_REMU(a, b) == IF b = <<0, 0>> THEN a ELSE udivmod(a, b).r

\* exec_Rtype, the arms with funct7 == 0x01
exec_MulDiv(funct3, a, b) ==
    IF funct3 = 0 THEN mul32(a, b)
    ELSE IF funct3 = 1 THEN mulh32(a, b)
    ELSE IF funct3 = 2 THEN mulhsu32(a, b)
    ELSE IF funct3 = 3 THEN mulhu32(a, b)
    ELSE IF funct3 = 4 THEN exec_DIV(a, b)
    ELSE IF funct3 = 5 THEN exec_DIVU(a, b)
    ELSE IF funct3 = 6 THEN exec_REM(a, b)
    ELSE exec_REMU(a, b)

\* exec_Rtype
exec_Rtype(m, inst, rd, funct3, rs1, rs2, funct7) ==
    LET a == m.cpu.registers[rs1]
        b == m.cpu.registers[rs2]
        shamt == b[2] % 32
    IN IF funct7 = 1 THEN set_reg(m, rd, exec_MulDiv(funct3, a, b))
       ELSE IF funct3 = 0 /\ funct7 = 0 THEN set_reg(m, rd, add32(a, b))
       ELSE IF funct3 = 0 /\ funct7 = 32 THEN set_reg(m, rd, sub32(a, b))
       ELSE IF funct3 = 1 /\ funct7 = 0 THEN set_reg(m, rd, shl32(a, shamt))
       ELSE IF funct3 = 2 /\ funct7 = 0 THEN set_reg(m, rd, bool32(lts32(a, b)))
       ELSE IF funct3 = 3 /\ funct7 = 0 THEN set_reg(m, rd, bool32(ltu32(a, b)))
       ELSE IF funct3 = 4 /\ funct7 = 0 THEN set_reg(m, rd, xor32(a, b))
       ELSE IF funct3 = 5 /\ funct7 = 0 THEN set_reg(m, rd, shr32(a, shamt))
       ELSE IF funct3 = 5 /\ funct7 = 32 THEN set_reg(m, rd, sra32(a, shamt))
       ELSE IF funct3 = 6 /\ funct7 = 0 THEN set_reg(m, rd, or32(a, b))
       ELSE IF funct3 = 7 /\ funct7 = 0 THEN set_reg(m, rd, and32(a, b))
       ELSE trap(m, w32(2), inst, TRUE)

\* exec_Itype
exec_Itype(m, inst, rd, funct3, rs1, rs2, funct7) ==
    LET imm_i == imm_i_of(inst)
        a == m.cpu.registers[rs1]
        shamt == imm_i % 32
    IN IF funct3 = 0 THEN set_reg(m, rd, add32(a, sx32(imm_i)))
       ELSE IF funct3 = 1
       THEN IF funct7 = 0 THEN set_reg(m, rd, shl32(a, shamt))
            ELSE trap(m, w32(2), inst, TRUE)
       ELSE IF funct3 = 2 THEN set_reg(m, rd, bool32(lts32(a, sx32(imm_i))))
       ELSE IF funct3 = 3 THEN set_reg(m, rd, bool32(ltu32(a, sx32(imm_i))))
       ELSE IF funct3 = 4 THEN set_reg(m, rd, xor32(a, sx32(imm_i)))
       ELSE IF funct3 = 5
       THEN IF funct7 = 0 THEN set_reg(m, rd, shr32(a, shamt))
            ELSE IF funct7 = 32 THEN set_reg(m, rd, sra32(a, shamt))
            ELSE trap(m, w32(2), inst, TRUE)
       ELSE IF funct3 = 6 THEN set_reg(m, rd, or32(a, sx32(imm_i)))
       ELSE set_reg(m, rd, and32(a, sx32(imm_i)))

\* exec_loads: addr = (cpu.registers[rs1] + imm_i) & 0xFFFFFFFF
load_addr(m, inst, rs1) == add32(m.cpu.registers[rs1], sx32(imm_i_of(inst)))

\* exec_loads: cpu.registers[rd] = the loaded value & 0xFFFFFFFF, r the
\* [val, exc] of the load (val a word for LW, a Python int otherwise)
loaded(m, rd, r, word) ==
    IF r.exc # "none" THEN raise([m EXCEPT !.io = @ \o r.io], r.exc)
    ELSE [set_reg(m, rd, IF word THEN r.val ELSE sx32(r.val)) EXCEPT !.io = @ \o r.io]

\* exec_loads
exec_loads(m, inst, rd, funct3, rs1, rs2, funct7) ==
    IF funct3 = 0 THEN loaded(m, rd, load_byte(m, load_addr(m, inst, rs1), TRUE), FALSE)
    ELSE IF funct3 = 1 THEN loaded(m, rd, load_half(m, load_addr(m, inst, rs1), TRUE), FALSE)
    ELSE IF funct3 = 2 THEN loaded(m, rd, load_word(m, load_addr(m, inst, rs1)), TRUE)
    ELSE IF funct3 = 4 THEN loaded(m, rd, load_byte(m, load_addr(m, inst, rs1), FALSE), FALSE)
    ELSE IF funct3 = 5 THEN loaded(m, rd, load_half(m, load_addr(m, inst, rs1), FALSE), FALSE)
    ELSE trap(m, w32(2), inst, TRUE)

\* cpu.reservation_valid = False, unless the store before it raised
clear_reservation(m) ==
    IF m.exc # "none" THEN m ELSE [m EXCEPT !.cpu.reservation_valid = FALSE]

\* exec_stores
exec_stores(m, inst, rd, funct3, rs1, rs2, funct7) ==
    LET addr == add32(m.cpu.registers[rs1], sx32(imm_s_of(inst)))
        v == m.cpu.registers[rs2]
    IN IF funct3 = 0 THEN clear_reservation(store_byte(m, addr, v[2] % 256))
       ELSE IF funct3 = 1 THEN clear_reservation(store_half(m, addr, v[2]))
       ELSE IF funct3 = 2 THEN clear_reservation(store_word(m, addr, v))
       ELSE trap(m, w32(2), inst, TRUE)

\* the branch offset imm_b (a Python int)
imm_b_of(inst) ==
    LET imm == ((inst[2] \div 128) % 2) * 2048 + ((inst[2] \div 256) % 16) * 2
               + ((inst[1] \div 512) % 64) * 32 + (inst[1] \div 32768) * 4096
    IN IF imm >= 4096 THEN imm - 8192 ELSE imm

\* exec_branches with BGE taken when rs1 < rs2, as BLT is
exec_branches_bge_as_blt(m, inst, rd, funct3, rs1, rs2, funct7) ==
    LET a == m.cpu.registers[rs1]
        b == m.cpu.registers[rs2]
        taken == \/ funct3 = 0 /\ a = b
                 \/ funct3 = 1 /\ a # b
                 \/ funct3 = 4 /\ lts32(a, b)
                 \/ funct3 = 5 /\ lts32(a, b)
                 \/ funct3 = 6 /\ ltu32(a, b)
                 \/ funct3 = 7 /\ geu32(a, b)
        addr_target == add32(m.cpu.pc, sx32(imm_b_of(inst)))
    IN IF taken
       THEN IF and32(addr_target, w32(m.cpu.alignment_mask)) # Zero
            THEN trap(m, Zero, addr_target, TRUE)
            ELSE [m EXCEPT !.cpu.next_pc = addr_target]
       ELSE IF funct3 \in {2, 3} THEN trap(m, w32(2), inst, TRUE)
       ELSE m

\* exec_branches
exec_branches(m, inst, rd, funct3, rs1, rs2, funct7) ==
    LET a == m.cpu.registers[rs1]
        b == m.cpu.registers[rs2]
        taken == \/ funct3 = 0 /\ a = b
                 \/ funct3 = 1 /\ a # b
                 \/ funct3 = 4 /\ lts32(a, b)
                 \/ funct3 = 5 /\ ~lts32(a, b)
                 \/ funct3 = 6 /\ ltu32(a, b)
                 \/ funct3 = 7 /\ geu32(a, b)
        addr_target == add32(m.cpu.pc, sx32(imm_b_of(inst)))
    IN IF taken
       THEN IF and32(addr_target, w32(m.cpu.alignment_mask)) # Zero
            THEN trap(m, Zero, addr_target, TRUE)
            ELSE [m EXCEPT !.cpu.next_pc = addr_target]
       ELSE IF funct3 \in {2, 3} THEN trap(m, w32(2), inst, TRUE)
       ELSE m

\* exec_LUI
exec_LUI(m, inst, rd, funct3, rs1, rs2, funct7) ==
    set_reg(m, rd, <<inst[1], inst[2] - (inst[2] % 4096)>>)

\* exec_AUIPC
exec_AUIPC(m, inst, rd, funct3, rs1, rs2, funct7) ==
    set_reg(m, rd, add32(m.cpu.pc, <<inst[1], inst[2] - (inst[2] % 4096)>>))

\* the jump offset imm_j (a Python int)
imm_j_of(inst) ==
    LET imm == ((inst[1] \div 32) % 1024) * 2 + ((inst[1] \div 16) % 2) * 2048
               + ((inst[1] % 16) * 16 + inst[2] \div 4096) * 4096
               + (inst[1] \div 32768) * 1048576
    IN IF imm >= 1048576 THEN imm - 2097152 ELSE imm

\* the jump that does not check the alignment of its target
jump_to_unchecked(m, rd, addr_target) ==
    LET m1 == IF rd # 0
              THEN set_reg(m, rd, add32(m.cpu.pc, w32(m.cpu.inst_size)))
              ELSE m
    IN [m1 EXCEPT !.cpu.next_pc = addr_target]

\* the tail of exec_JAL and exec_JALR: alignment check, link, jump
jump_to(m, rd, addr_target) ==
    IF and32(addr_target, w32(m.cpu.alignment_mask)) # Zero
    THEN trap(m, Zero, addr_target, TRUE)
    ELSE LET m1 == IF rd # 0
                   THEN set_reg(m, rd, add32(m.cpu.pc, w32(m.cpu.inst_size)))
                   ELSE m
         IN [m1 EXCEPT !.cpu.next_pc = addr_target]

\* exec_JAL
exec_JAL(m, inst, rd, funct3, rs1, rs2, funct7) ==
    jump_to(m, rd, add32(m.cpu.pc, sx32(imm_j_of(inst))))

\* exec_JALR
exec_JALR(m, inst, rd, funct3, rs1, rs2, funct7) ==
    jump_to(m, rd, andnot32(add32(m.cpu.registers[rs1], sx32(imm_i_of(inst))), w32(1)))

\* exec_MISCMEM
exec_MISCMEM(m, inst, rd, funct3, rs1, rs2, funct7) ==
    IF funct3 \in {0, 1} THEN m ELSE trap(m, w32(2), inst, TRUE)

\* min / max of two words, signed and unsigned
min_s(a, b) == IF lts32(a, b) THEN a ELSE b
max_s(a, b) == IF lts32(a, b) THEN b ELSE a
min_u(a, b) == IF ltu32(a, b) THEN a ELSE b
max_u(a, b) == IF ltu32(a, b) THEN b ELSE a

\* exec_AMO, the read-modify-write arms: new_val
amo_new_val(funct5, old_val, b) ==
    IF funct5 = 1 THEN b
    ELSE IF funct5 = 0 THEN add32(old_val, b)
    ELSE IF funct5 = 4 THEN xor32(old_val, b)
    ELSE IF funct5 = 12 THEN and32(old_val, b)
    ELSE IF funct5 = 8 THEN or32(old_val, b)
    ELSE IF funct5 = 16 THEN min_s(old_val, b)
    ELSE IF funct5 = 20 THEN max_s(old_val, b)
    ELSE IF funct5 = 24 THEN min_u(old_val, b)
    ELSE max_u(old_val, b)

\* exec_AMO, the read-modify-write arms: after ram.store_word
amo_stored(m, rd, old_val) ==
    IF m.exc # "none" THEN m
    ELSE [set_reg(m, rd, old_val) EXCEPT !.cpu.reservation_valid = FALSE]

\* exec_AMO, the read-modify-write arms: after ram.load_word returned old
amo_loaded(m, funct5, rd, rs2, addr, old) ==
    IF old.exc # "none" THEN raise([m EXCEPT !.io = @ \o old.io], old.exc)
    ELSE amo_stored(store_word([m EXCEPT !.io = @ \o old.io], addr,
                               amo_new_val(funct5, old.val, m.cpu.registers[rs2])),
                    rd, old.val)

\* the read-modify-write that writes rd before it reads rs2
amo_rmw_rd_first(m, funct5, rd, rs2, addr) ==
    amo_loaded(set_reg(m, rd, load_word(m, addr).val), funct5, rd, rs2, addr,
               load_word(m, addr))

\* exec_AMO, the read-modify-write arms: load old_val, store new_val, then
\* rd <- old_val and the reservation is cleared
amo_rmw(m, funct5, rd, rs2, addr) ==
    amo_loaded(m, funct5, rd, rs2, addr, load_word(m, addr))

\* exec_AMO, LR.W: after ram.load_word returned w
lr_loaded(m, rd, addr, w) ==
    IF w.exc # "none" THEN raise([m EXCEPT !.io = @ \o w.io], w.exc)
    ELSE [set_reg(m, rd, w.val) EXCEPT !.cpu.reservation_valid = TRUE,
                                       !.cpu.reservation_addr = addr,
                                       !.io = @ \o w.io]

\* exec_AMO, LR.W
exec_LR(m, rd, addr) == lr_loaded(m, rd, addr, load_word(m, addr))

\* exec_AMO, SC.W: the success arm after ram.store_word
sc_stored(m, rd) ==
    IF m.exc # "none" THEN m
    ELSE [set_reg(m, rd, Zero) EXCEPT !.cpu.reservation_valid = FALSE]

\* the SC.W that ignores the reservation
exec_SC_always(m, rd, rs2, addr) ==
    sc_stored(store_word(m, addr, m.cpu.registers[rs2]), rd)

\* exec_AMO, SC.W: the failure arm writes rd and nothing else
exec_SC(m, rd, rs2, addr) ==
    IF m.cpu.reservation_valid /\ m.cpu.reservation_addr = addr
    THEN sc_stored(store_word(m, addr, m.cpu.registers[rs2]), rd)
    ELSE set_reg(m, rd, w32(1))

\* exec_AMO
exec_AMO(m, inst, rd, funct3, rs1, rs2, funct7) ==
    LET funct5 == inst[1] \div 2048
        addr == m.cpu.registers[rs1]
    IN IF funct3 # 2 THEN trap(m, w32(2), inst, TRUE)
       ELSE IF addr[2] % 4 # 0 THEN trap(m, w32(6), addr, TRUE)
       ELSE IF funct5 = 2 THEN exec_LR(m, rd, addr)
       ELSE IF funct5 = 3 THEN exec_SC(m, rd, rs2, addr)
       ELSE IF funct5 \in {1, 0, 4, 12, 8, 16, 20, 24, 28}
       THEN amo_rmw(m, funct5, rd, rs2, addr)
       ELSE trap(m, w32(2), inst, TRUE)

\* opcode_handler: the dispatch table
opcode_handler == {51, 19, 3, 35, 99, 55, 23, 111, 103, 115, 15, 47}

\* (opcode_handler[opcode])(cpu, ram, inst, rd, funct3, rs1, rs2, funct7)
dispatch(m, opcode, inst, rd, funct3, rs1, rs2, funct7) ==
    IF opcode = 51 THEN exec_Rtype(m, inst, rd, funct3, rs1, rs2, funct7)
    ELSE IF opcode = 19 THEN exec_Itype(m, inst, rd, funct3, rs1, rs2, funct7)
    ELSE IF opcode = 3 THEN exec_loads(m, inst, rd, funct3, rs1, rs2, funct7)
    ELSE IF opcode = 35 THEN exec_stores(m, inst, rd, funct3, rs1, rs2, funct7)
    ELSE IF opcode = 99 THEN exec_branches(m, inst, rd, funct3, rs1, rs2, funct7)
    ELSE IF opcode = 55 THEN exec_LUI(m, inst, rd, funct3, rs1, rs2, funct7)
    ELSE IF opcode = 23 THEN exec_AUIPC(m, inst, rd, funct3, rs1, rs2, funct7)
    ELSE IF opcode = 111 THEN exec_JAL(m, inst, rd, funct3, rs1, rs2, funct7)
    ELSE IF opcode = 103 THEN exec_JALR(m, inst, rd, funct3, rs1, rs2, funct7)
    ELSE IF opcode = 115 THEN exec_SYSTEM(m, inst, rd, funct3, rs1, rs2, funct7)
    ELSE IF opcode = 15 THEN exec_MISCMEM(m, inst, rd, funct3, rs1, rs2, funct7)
    ELSE exec_AMO(m, inst, rd, funct3, rs1, rs2, funct7)

\* the fields (opcode, rd, funct3, rs1, rs2, funct7) of a 32-bit word
decode(inst) ==
    <<inst[2] % 128, (inst[2] \div 128) % 32, (inst[2] \div 4096) % 8,
      (inst[2] \div 32768) + 2 * (inst[1] % 16), (inst[1] \div 16) % 32,
      inst[1] \div 512>>

\* d[key] for a dict d kept as a function
cache_put(d, key, v) == [k \in DOMAIN d \cup {key} |-> IF k = key THEN v ELSE d[k]]

\* execute_32 and execute_16 after the decode: the handler of the opcode, or
\* an illegal-instruction trap
dispatch_or_trap(m, f, inst) ==
    IF f[1] \in opcode_handler
    THEN dispatch(m, f[1], inst, f[2], f[3], f[4], f[5], f[6])
    ELSE trap(m, w32(2), inst, TRUE)

\* self.registers[0] = 0, reached unless the handler raised
zero_x0(m) == IF m.exc # "none" THEN m ELSE set_reg(m, 0, Zero)

\* the dispatch without the final registers[0] = 0
run_decoded_x0_kept(m, f, inst) == dispatch_or_trap(m, f, inst)

\* execute_32 and execute_16 after the decode: dispatch, then registers[0] = 0
run_decoded(m, f, inst) == zero_x0(dispatch_or_trap(m, f, inst))

\* CPU.execute_32
execute_32(m, inst) ==
    LET key == shr32(inst, 2)
        hit == key \in DOMAIN m.cpu.decode_cache
        f == IF hit THEN m.cpu.decode_cache[key] ELSE decode(inst)
        m1 == [m EXCEPT !.cpu.decode_cache = IF hit THEN @ ELSE cache_put(@, key, f),
                        !.cpu.next_pc = add32(m.cpu.pc, w32(4)),
                        !.cpu.inst_size = 4]
    IN run_decoded(m1, f, inst)

\* ------------------------------------------------------------------------
\* rvc.py: expand_compressed
\* ------------------------------------------------------------------------
\* (c >> lo) & (2^n - 1)
bits(c, lo, n) == (c \div 2^lo) % 2^n

\* (top12 << 20) | (rs1 << 15) | (funct3 << 12) | (rd << 7) | opcode, where
\* top12 is a 12-bit immediate or (funct7 << 5) | rs2
enc(top12, rs1, funct3, rd, opcode) ==
    <<top12 * 16 + rs1 \div 2,
      (rs1 % 2) * 32768 + funct3 * 4096 + rd * 128 + opcode>>

\* a successful and a failed expansion
expanded(inst) == [inst |-> inst, success |-> TRUE]
illegal_c == [inst |-> Zero, success |-> FALSE]

\* a 6-bit field sign-extended, then masked with 0xFFF
imm6_12(c) ==
    LET imm == bits(c, 12, 1) * 32 + bits(c, 2, 5)
    IN IF imm >= 32 THEN imm - 64 + 4096 ELSE imm

\* C.JAL / C.J: the immediate is sign-extended, masked to 20 bits, and the
\* JAL word is assembled from its bits 20, 10:1, 11 and 19:12
expand_cj(c, rd) ==
    LET raw == bits(c, 12, 1) * 2048 + bits(c, 8, 1) * 1024 + bits(c, 9, 2) * 256
               + bits(c, 6, 1) * 128 + bits(c, 7, 1) * 64 + bits(c, 2, 1) * 32
               + bits(c, 11, 1) * 16 + bits(c, 3, 3) * 2
        imm == IF raw >= 2048 THEN raw - 4096 + 1048576 ELSE raw
        bit20 == 0   \* imm & 0x100000 of a value below 2^20
    IN expanded(<<bit20 * 32768 + bits(imm, 1, 10) * 32 + bits(imm, 11, 1) * 16
                      + bits(imm, 16, 4),
                  bits(imm, 12, 4) * 4096 + rd * 128 + 111>>)

\* C.BEQZ / C.BNEZ
expand_cb(c, funct3) ==
    LET raw == bits(c, 12, 1) * 256 + bits(c, 5, 2) * 64 + bits(c, 2, 1) * 32
               + bits(c, 10, 2) * 8 + bits(c, 3, 2) * 2
        imm == IF raw >= 256 THEN raw - 512 + 8192 ELSE raw   \* low 13 bits
        rs1_prime == bits(c, 7, 3) + 8
    IN expanded(<<bits(imm, 12, 1) * 32768 + bits(imm, 5, 6) * 512 + rs1_prime \div 2,
                  (rs1_prime % 2) * 32768 + funct3 * 4096 + bits(imm, 1, 4) * 256
                      + bits(imm, 11, 1) * 128 + 99>>)

\* quadrant 0
expand_q0(c, funct3) ==
    LET rd_prime == bits(c, 2, 3) + 8
        rs1_prime == bits(c, 7, 3) + 8
        nzuimm == bits(c, 11, 2) * 16 + bits(c, 7, 4) * 64 + bits(c, 6, 1) * 4
                  + bits(c, 5, 1) * 8
        imm == bits(c, 10, 3) * 8 + bits(c, 6, 1) * 4 + bits(c, 0, 1) * 64
    IN IF funct3 = 0
       THEN IF nzuimm = 0 THEN illegal_c ELSE expanded(enc(nzuimm, 2, 0, rd_prime, 19))
       ELSE IF funct3 = 2 THEN expanded(enc(imm, rs1_prime, 2, rd_prime, 3))
       ELSE IF funct3 = 6
       THEN expanded(enc((imm \div 32) * 32 + rd_prime, rs1_prime, 2, imm % 32, 35))
       ELSE illegal_c

\* quadrant 1, funct3 == 0b100: C.SRLI, C.SRAI, C.ANDI, C.SUB, C.XOR, C.OR, C.AND
expand_q1_arith(c) ==
    LET funct2 == bits(c, 10, 2)
        rd_rs1_prime == bits(c, 7, 3) + 8
        rs2_prime == bits(c, 2, 3) + 8
        shamt == bits(c, 12, 1) * 32 + bits(c, 2, 5)
        funct2_low == bits(c, 5, 2)
    IN IF funct2 = 0
       THEN IF shamt = 0 THEN illegal_c
            ELSE expanded(enc(shamt, rd_rs1_prime, 5, rd_rs1_prime, 19))
       ELSE IF funct2 = 1
       THEN IF shamt = 0 THEN illegal_c
            ELSE expanded(enc(bor(32 * 32, shamt), rd_rs1_prime, 5, rd_rs1_prime, 19))
       ELSE IF funct2 = 2
       THEN expanded(enc(imm6_12(c), rd_rs1_prime, 7, rd_rs1_prime, 19))
       ELSE IF bits(c, 12, 1) = 0
       THEN IF funct2_low = 0
            THEN expanded(enc(32 * 32 + rs2_prime, rd_rs1_prime, 0, rd_rs1_prime, 51))
            ELSE IF funct2_low = 1
            THEN expanded(enc(rs2_prime, rd_rs1_prime, 4, rd_rs1_prime, 51))
            ELSE IF funct2_low = 2
            THEN expanded(enc(rs2_prime, rd_rs1_prime, 6, rd_rs1_prime, 51))
            ELSE expanded(enc(rs2_prime, rd_rs1_prime, 7, rd_rs1_prime, 51))
       ELSE illegal_c

\* quadrant 1
expand_q1(c, funct3) ==
    LET rd == bits(c, 7, 5)
        nzimm16 == bits(c, 12, 1) * 512 + bits(c, 6, 1) * 16 + bits(c, 5, 1) * 64
                   + bits(c, 3, 2) * 128 + bits(c, 2, 1) * 32
        nzimm6 == bits(c, 12, 1) * 32 + bits(c, 2, 5)
        lui20 == IF nzimm6 >= 32 THEN nzimm6 - 64 + 1048576 ELSE nzimm6
    IN IF funct3 = 0 THEN expanded(enc(imm6_12(c), rd, 0, rd, 19))
       ELSE IF funct3 = 1 THEN expand_cj(c, 1)
       ELSE IF funct3 = 2 THEN expanded(enc(imm6_12(c), 0, 0, rd, 19))
       ELSE IF funct3 = 3
       THEN IF rd = 2
            THEN IF nzimm16 = 0 THEN illegal_c
                 ELSE expanded(enc(IF nzimm16 >= 512 THEN nzimm16 - 1024 + 4096
                                   ELSE nzimm16, 2, 0, 2, 19))
            ELSE IF nzimm6 = 0 \/ rd = 0 THEN illegal_c
                 ELSE expanded(<<lui20 \div 16, (lui20 % 16) * 4096 + rd * 128 + 55>>)
       ELSE IF funct3 = 4 THEN expand_q1_arith(c)
       ELSE IF funct3 = 5 THEN expand_cj(c, 0)
       ELSE IF funct3 = 6 THEN expand_cb(c, 0)
       ELSE expand_cb(c, 1)

\* quadrant 2
expand_q2(c, funct3) ==
    LET shamt == bits(c, 12, 1) * 32 + bits(c, 2, 5)
        rs1 == bits(c, 7, 5)
        rs2 == bits(c, 2, 5)
        lwsp == bits(c, 2, 2) * 64 + bits(c, 12, 1) * 32 + bits(c, 4, 3) * 4
        swsp == bits(c, 9, 4) * 4 + bits(c, 7, 2) * 64
    IN IF funct3 = 0
       THEN IF shamt = 0 \/ rs1 = 0 THEN illegal_c
            ELSE expanded(enc(shamt, rs1, 1, rs1, 19))
       ELSE IF funct3 = 2
       THEN IF rs1 = 0 THEN illegal_c ELSE expanded(enc(lwsp, 2, 2, rs1, 3))
       ELSE IF funct3 = 4
       THEN IF bits(c, 12, 1) = 0
            THEN IF rs1 = 0 THEN illegal_c
                 ELSE IF rs2 = 0 THEN expanded(enc(0, rs1, 0, 0, 103))
                 ELSE expanded(enc(rs2, 0, 0, rs1, 51))
            ELSE IF rs1 = 0 /\ rs2 = 0 THEN expanded(<<16, 115>>)
                 ELSE IF rs2 = 0 THEN expanded(enc(0, rs1, 0, 1, 103))
                 ELSE expanded(enc(rs2, rs1, 0, rs1, 51))
       ELSE IF funct3 = 6
       THEN expanded(enc((swsp \div 32) * 32 + rs2, 2, 2, swsp % 32, 35))
       ELSE illegal_c

\* expand_compressed(c_inst), c_inst a 16-bit int: [inst, success]
expand_compressed(c_inst) ==
    LET quadrant == c_inst % 4
        funct3 == bits(c_inst, 13, 3)
    IN IF quadrant = 0 THEN expand_q0(c_inst, funct3)
       ELSE IF quadrant = 1 THEN expand_q1(c_inst, funct3)
       ELSE IF quadrant = 2 THEN expand_q2(c_inst, funct3)
       ELSE illegal_c

\* ------------------------------------------------------------------------
\* cpu.py: execute_16, execute, timer_update, the external interrupt API
\* ------------------------------------------------------------------------
\* execute_16 from the decoded entry on: (opcode, rd, funct3, rs1, rs2,
\* funct7, expanded_inst), cached if it was not
run_16(m, inst16, entry) ==
    run_decoded([m EXCEPT !.cpu.decode_cache_compressed =
                              IF inst16 \in DOMAIN @ THEN @ ELSE cache_put(@, inst16, entry),
                          !.cpu.next_pc = add32(m.cpu.pc, w32(2)),
                          !.cpu.inst_size = 2],
                entry, entry[7])

\* execute_16, the KeyError arm: e is what expand_compressed returned
execute_16_miss(m, inst16, e) ==
    IF ~e.success THEN trap(m, w32(2), w32(inst16), TRUE)
    ELSE run_16(m, inst16, Append(decode(e.inst), e.inst))

\* CPU.execute_16
execute_16(m, inst16) ==
    IF inst16 \in DOMAIN m.cpu.decode_cache_compressed
    THEN run_16(m, inst16, m.cpu.decode_cache_compressed[inst16])
    ELSE execute_16_miss(m, inst16, expand_compressed(inst16))

\* CPU.execute
execute(m, inst) ==
    IF ~m.cpu.rvc_enabled THEN execute_32(m, inst)
    ELSE IF inst[2] % 4 = 3 THEN execute_32(m, inst)
    ELSE execute_16(m, inst[2])

\* csrs[0x344] with MTIP set or cleared
set_mtip_bit(mip, asserted) ==
    IF asserted THEN or32(mip, w32(2^MTI_BIT)) ELSE andnot32(mip, w32(2^MTI_BIT))

\* timer_update: mtip_asserted, computed from the mtime read before the
\* increment
mtip_asserted(m) == time_ge(m.cpu.mtime, m.cpu.mtimecmp)

\* the interrupt check that ignores mstatus.MIE
check_interrupts_unmasked(m) ==
    LET csrs == m.cpu.csrs
    IN IF bit32(csrs[CSR_MIP], MTI_BIT) = 1 /\ bit32(csrs[CSR_MIE], MTI_BIT) = 1
       THEN trap(m, MTI_CAUSE, Zero, FALSE)
       ELSE IF bit32(csrs[CSR_MIP], MEI_BIT) = 1 /\ bit32(csrs[CSR_MIE], MEI_BIT) = 1
       THEN trap(m, MEI_CAUSE, Zero, FALSE)
       ELSE m

\* the interrupt check that looks at the external interrupt first
check_interrupts_external_first(m) ==
    LET csrs == m.cpu.csrs
    IN IF bit32(csrs[CSR_MSTATUS], MIE_BIT) = 0 THEN m
       ELSE IF bit32(csrs[CSR_MIP], MEI_BIT) = 1 /\ bit32(csrs[CSR_MIE], MEI_BIT) = 1
       THEN trap(m, MEI_CAUSE, Zero, FALSE)
       ELSE IF bit32(csrs[CSR_MIP], MTI_BIT) = 1 /\ bit32(csrs[CSR_MIE], MTI_BIT) = 1
       THEN trap(m, MTI_CAUSE, Zero, FALSE)
       ELSE m

\* timer_update, the interrupt check that follows the tick
check_interrupts(m) ==
    LET csrs == m.cpu.csrs
    IN IF bit32(csrs[CSR_MSTATUS], MIE_BIT) = 0 THEN m
       ELSE IF bit32(csrs[CSR_MIP], MTI_BIT) = 1 /\ bit32(csrs[CSR_MIE], MTI_BIT) = 1
       THEN trap(m, MTI_CAUSE, Zero, FALSE)
       ELSE IF bit32(csrs[CSR_MIP], MEI_BIT) = 1 /\ bit32(csrs[CSR_MIE], MEI_BIT) = 1
       THEN trap(m, MEI_CAUSE, Zero, FALSE)
       ELSE m

\* timer_update: self.mtime = mtime + 1
tick(m) == [m EXCEPT !.cpu.mtime = time_inc(@)]

\* timer_update: the pending flag follows mtip_asserted on an edge
set_mtip(m, asserted) ==
    IF asserted # m.cpu.mtip
    THEN [m EXCEPT !.cpu.csrs[CSR_MIP] = set_mtip_bit(@, asserted),
                   !.cpu.mtip = asserted]
    ELSE m

\* CPU.timer_update
timer_update(m) == check_interrupts(set_mtip(tick(m), mtip_asserted(m)))

\* CPU.assert_external_interrupt, CPU.clear_external_interrupt
assert_external_interrupt(m) ==
    [m EXCEPT !.cpu.csrs[CSR_MIP] = or32(@, w32(2^MEI_BIT))]
clear_external_interrupt(m) ==
    [m EXCEPT !.cpu.csrs[CSR_MIP] = andnot32(@, w32(2^MEI_BIT))]

\* ------------------------------------------------------------------------
\* The machine: CPU + RAM + MMIOTimer driven by the step loop of run_chunk
\* ------------------------------------------------------------------------
VARIABLES
    cpu,      \* the CPU object
    ram,      \* the RAM / RAM_MMIO object
    tmr,      \* the MMIOTimer object registered with a RAM_MMIO
    state,    \* EmulatorState: running, instruction_count, options
    phase,    \* position in the loop body: "execute", "timer_update", "commit"
    ev,       \* observation: the CPU.trap calls made by the last call
    g         \* observation: the last call and what has been written so far

vars == <<cpu, ram, tmr, state, phase, ev, g>>

\* the size of the RAM and the byte it is filled with (RAM(size, init=...))
RamSize == 8
FillByte == 165

\* CPU.__init__
CPU_init(rvc_enabled) ==
    [registers |-> [i \in 0..31 |-> Zero],
     pc |-> Zero,
     next_pc |-> Zero,
     handle_ecall |-> "None",
     rvc_enabled |-> rvc_enabled,
     alignment_mask |-> IF rvc_enabled THEN 1 ELSE 3,
     logger |-> "None",
     inst_size |-> 4,
     reservation_valid |-> FALSE,
     reservation_addr |-> Zero,
     csrs |-> [a \in CsrAddrs |->
                  IF a = CSR_MISA THEN <<16384, IF rvc_enabled THEN 4357 ELSE 4353>>
                  ELSE IF a = CSR_MSTATUS THEN <<0, 6144>>
                  ELSE IF a \in {CSR_MTIMECMP_LO, CSR_MTIMECMP_HI} THEN <<B16 - 1, B16 - 1>>
                  ELSE IF a = CSR_MARCHID THEN w32(1)
                  ELSE IF a = CSR_MIMPID THEN <<8229, 1024>>
                  ELSE Zero],
     mtime |-> <<0, 0, 0, 0>>,
     mtimecmp |-> <<B16 - 1, B16 - 1, B16 - 1, B16 - 1>>,
     mtime_lo_updated |-> FALSE,
     mtime_hi_updated |-> FALSE,
     mtimecmp_lo_updated |-> FALSE,
     mtimecmp_hi_updated |-> FALSE,
     mtip |-> FALSE,
     decode_cache |-> <<>>,
     decode_cache_compressed |-> <<>>]

\* RAM.__init__ / RAM_MMIO.__init__ followed by initialize_ram: size bytes
\* hold the fill value, the padding stays zero
RAM_init(kind) ==
    [kind |-> kind, size |-> RamSize, base_addr |-> Zero,
     mmio_ranges |-> IF kind \in MMIO_KINDS THEN <<TimerRange>> ELSE <<>>,
     memory |-> [i \in 0..(RamSize + PADDING - 1) |-> IF i < RamSize THEN FillByte ELSE 0]]

\* MMIOTimer.__init__
MMIOTimer_init ==
    [mtime_lo |-> Zero, mtime_hi |-> Zero,
     mtime_lo_updated |-> FALSE, mtime_hi_updated |-> FALSE,
     mtimecmp_lo |-> Zero, mtimecmp_hi |-> Zero,
     mtimecmp_lo_updated |-> FALSE, mtimecmp_hi_updated |-> FALSE]

\* Machine.__init__: no ELF symbol has set the heap or the stack yet
Machine_init == [heap_end |-> NONE, stack_bottom |-> NONE, stack_top |-> NONE]

\* EmulatorState once start() has set it running
EmulatorState(timer) ==
    [running |-> TRUE, instruction_count |-> 0, exit_info |-> "",
     options |-> [timer |-> timer],
     machine |-> Machine_init]

\* the emulator value the operators above work on
Emu == [cpu |-> cpu, ram |-> ram, tmr |-> tmr, exc |-> "none", ev |-> <<>>, io |-> <<>>,
        mach |-> state.machine]

\* ---- observation (no operator of the program reads g) -------------------
\* the 32-bit instruction a word is executed as: itself, or its expansion
effective(c, inst) ==
    IF c.rvc_enabled /\ inst[2] % 4 # 3 THEN expand_compressed(inst[2]).inst ELSE inst

opcode_of(inst) == inst[2] % 128
funct3_of(inst) == (inst[2] \div 4096) % 8
rd_of(inst) == (inst[2] \div 128) % 32
rs1_of(inst) == (inst[2] \div 32768) + 2 * (inst[1] % 16)
rs2_of(inst) == (inst[1] \div 16) % 32
csr_of(inst) == inst[1] \div 16

is_store(inst) == opcode_of(inst) = 35 /\ funct3_of(inst) \in {0, 1, 2}
is_amo_w(inst) == opcode_of(inst) = 47 /\ funct3_of(inst) = 2
is_lr(inst) == is_amo_w(inst) /\ inst[1] \div 2048 = 2
is_sc(inst) == is_amo_w(inst) /\ inst[1] \div 2048 = 3
is_csr_op(inst) == opcode_of(inst) = 115 /\ funct3_of(inst) \in {1, 2, 3, 5, 6, 7}
is_csrrw(inst) == opcode_of(inst) = 115 /\ funct3_of(inst) \in {1, 5}

\* a CSR instruction that writes its CSR: CSRRW / CSRRWI always, the set and
\* clear forms when their operand is not zero
csr_writes(c, inst) ==
    /\ is_csr_op(inst)
    /\ \/ is_csrrw(inst)
       \/ funct3_of(inst) \in {2, 3} /\ c.registers[rs1_of(inst)] # Zero
       \/ funct3_of(inst) \in {6, 7} /\ rs1_of(inst) # 0

\* the address a store or an AMO goes to
store_addr(c, inst) == add32(c.registers[rs1_of(inst)], sx32(imm_s_of(inst)))

NoHalves == [lo |-> <<>>, hi |-> <<>>]
G_init ==
    [call |-> "init", inst |-> Zero,
     lrsc |-> [st |-> "idle", addr |-> Zero],
     cw |-> [mtime |-> NoHalves, mtimecmp |-> NoHalves],
     mw |-> [mtime |-> NoHalves, mtimecmp |-> NoHalves],
     since3 |-> -1,
     succ |-> <<>>, resume |-> <<>>, resumed |-> <<>>,
     pin |-> FALSE,
     fetched |-> 0,
     io |-> <<>>,
     due |-> FALSE]

\* t + 3
time_plus3(t) == time_inc(time_inc(time_inc(t)))

\* timer interrupts are enabled, a handler is installed and the compare
\* value is three ticks ahead
armed(c) ==
    /\ bit32(c.csrs[CSR_MSTATUS], MIE_BIT) = 1
    /\ bit32(c.csrs[CSR_MIE], MTI_BIT) = 1
    /\ c.csrs[CSR_MTVEC] # Zero
    /\ c.mtimecmp = time_plus3(c.mtime)

\* what the interrupt depends on, besides the ticks
irq_setup(c) ==
    <<bit32(c.csrs[CSR_MSTATUS], MIE_BIT), bit32(c.csrs[CSR_MIE], MTI_BIT),
      c.csrs[CSR_MTVEC], c.mtimecmp>>

\* ticks counted since armed(c) held, -1 when it did not or the setup changed
since3_next(call, c, c1, old) ==
    IF armed(c1) THEN 0
    ELSE IF old = -1 \/ old >= 3 THEN -1
    ELSE IF call = "timer_update" THEN old + 1
    ELSE IF irq_setup(c1) # irq_setup(c) \/ c1.mtime # c.mtime THEN -1
    ELSE old

\* the timer interrupt is enabled, a handler is installed and the counter
\* has reached the compare value
timer_due(c) ==
    /\ bit32(c.csrs[CSR_MSTATUS], MIE_BIT) = 1
    /\ bit32(c.csrs[CSR_MIE], MTI_BIT) = 1
    /\ c.csrs[CSR_MTVEC] # Zero
    /\ time_ge(c.mtime, c.mtimecmp)

\* a machine timer interrupt is among the traps taken
timer_taken(trapped) ==
    \E i \in 1..Len(trapped) : trapped[i].taken /\ trapped[i].cause = MTI_CAUSE

\* the size of the instruction a fetched word is executed as
size_of(c, inst) == IF c.rvc_enabled /\ inst[2] % 4 # 3 THEN 2 ELSE 4

\* a conditional branch whose condition holds
branch_taken(c, e) ==
    /\ opcode_of(e) = 99
    /\ LET a == c.registers[rs1_of(e)]
           b == c.registers[rs2_of(e)]
       IN \/ funct3_of(e) = 0 /\ a = b
          \/ funct3_of(e) = 1 /\ a # b
          \/ funct3_of(e) = 4 /\ lts32(a, b)
          \/ funct3_of(e) = 5 /\ ~lts32(a, b)
          \/ funct3_of(e) = 6 /\ ltu32(a, b)
          \/ funct3_of(e) = 7 /\ geu32(a, b)

\* an instruction that transfers control, and the target it names
transfers(c, e) ==
    opcode_of(e) \in {111, 103} \/ e = INST_MRET \/ branch_taken(c, e)
target_of(c, e) ==
    IF opcode_of(e) = 111 THEN add32(c.pc, sx32(imm_j_of(e)))
    ELSE IF opcode_of(e) = 103
    THEN andnot32(add32(c.registers[rs1_of(e)], sx32(imm_i_of(e))), w32(1))
    ELSE IF e = INST_MRET THEN c.csrs[CSR_MEPC]
    ELSE add32(c.pc, sx32(imm_b_of(e)))

\* the address of the instruction that follows inst in the program's order:
\* the target if it transfers control, pc + its size otherwise
succ_of(c, inst) ==
    IF transfers(c, effective(c, inst)) THEN target_of(c, effective(c, inst))
    ELSE add32(c.pc, w32(size_of(c, inst)))

\* an asynchronous trap was taken by the call that left the log trapped
async_taken(trapped) ==
    \E i \in 1..Len(trapped) : trapped[i].taken /\ ~trapped[i].sync

\* the address an interrupted program is to resume at, <<>> when no
\* interrupt is being handled: set when an interrupt is taken, dropped by the
\* MRET that returns, by another trap and by a write to mepc
resume_next(e, c, m, old) ==
    IF m.ev # <<>> \/ m.exc # "none" THEN <<>>
    ELSE IF e = INST_MRET THEN <<>>
    ELSE IF csr_writes(c, e) /\ csr_of(e) = CSR_MEPC THEN <<>>
    ELSE old

\* LR.W ... store ... SC.W: where the sequence stands after this instruction
lrsc_next(e, c, done, old) ==
    IF is_lr(e) /\ done THEN [st |-> "lr", addr |-> c.registers[rs1_of(e)]]
    ELSE IF is_store(e) /\ done /\ old.st \in {"lr", "lr_store"}
    THEN [old EXCEPT !.st = "lr_store"]
    ELSE old

\* the counter and the half a timer CSR address names
csr_counter(csr) == IF csr \in {CSR_MTIME_LO, CSR_MTIME_HI} THEN "mtime" ELSE "mtimecmp"
csr_half(csr) == IF csr \in {CSR_MTIME_LO, CSR_MTIMECMP_LO} THEN "lo" ELSE "hi"
is_timer_csr(csr) == csr \in {CSR_MTIME_LO, CSR_MTIME_HI, CSR_MTIMECMP_LO, CSR_MTIMECMP_HI}

\* an instruction that writes one half of a counter through its CSR shadow
shadow_write(c, e) == csr_writes(c, e) /\ is_timer_csr(csr_of(e))

\* the value a CSR instruction writes: the operand, or the CSR's value with
\* the operand's bits set or cleared
csr_written(c, e) ==
    LET operand == IF funct3_of(e) < 5 THEN c.registers[rs1_of(e)] ELSE w32(rs1_of(e))
    IN IF funct3_of(e) \in {1, 5} THEN operand
       ELSE IF funct3_of(e) \in {2, 6} THEN or32(c.csrs[csr_of(e)], operand)
       ELSE andnot32(c.csrs[csr_of(e)], operand)

\* both halves of a counter have been written
both(h) == h.lo # <<>> /\ h.hi # <<>>

\* the halves of each counter written through the CSR shadows since both
\* were last written, with the values written (<<v>>, or <<>> for a half not
\* written), this instruction's write included
cw_halves(e, c, old) ==
    [old[csr_counter(csr_of(e))] EXCEPT ![csr_half(csr_of(e))] = <<csr_written(c, e)>>]

cw_next(e, c, done, old) ==
    IF shadow_write(c, e) /\ done
    THEN [old EXCEPT ![csr_counter(csr_of(e))] =
              IF both(cw_halves(e, c, old)) THEN NoHalves ELSE cw_halves(e, c, old)]
    ELSE old

\* the counter and the half an MMIO register address names
reg_counter(addr) == IF addr \in {REG_MTIME_LO, REG_MTIME_HI} THEN "mtime" ELSE "mtimecmp"
reg_half(addr) == IF addr \in {REG_MTIME_LO, REG_MTIMECMP_LO} THEN "lo" ELSE "hi"
is_timer_reg(addr) ==
    addr \in {REG_MTIME_LO, REG_MTIME_HI, REG_MTIMECMP_LO, REG_MTIMECMP_HI}

\* a word store to one of the four MMIO timer registers
mmio_write(c, r, e) ==
    /\ opcode_of(e) = 35 /\ funct3_of(e) = 2
    /\ r.kind = "RAM_MMIO" /\ is_timer_reg(store_addr(c, e))

\* the halves of each counter stored through MMIO since both were last
\* stored, with the values stored (<<v>>, or <<>> for a half not stored)
mw_halves(e, c, old) ==
    LET a == store_addr(c, e)
    IN [old[reg_counter(a)] EXCEPT ![reg_half(a)] = <<c.registers[rs2_of(e)]>>]

mw_next(e, c, r, done, old) ==
    IF mmio_write(c, r, e) /\ done
    THEN [old EXCEPT ![reg_counter(store_addr(c, e))] =
              IF both(mw_halves(e, c, old)) THEN NoHalves ELSE mw_halves(e, c, old)]
    ELSE old

\* ---- the loop body of run_chunk ------------------------------------------
\* what a call that raised leaves of the loop
after_call(m) ==
    [state EXCEPT !.running = (m.exc = "none"),
                  !.exit_info = IF m.exc = "none" THEN @ ELSE m.exc,
                  !.machine = m.mach]

\* what is recorded of state.cpu.execute(inst) that left the emulator as m; e
\* is the 32-bit instruction executed
executed_g(m, inst, e) ==
            [call |-> "execute", inst |-> inst,
             lrsc |-> lrsc_next(e, cpu, m.exc = "none" /\ m.ev = <<>>, g.lrsc),
             cw |-> cw_next(e, cpu, m.exc = "none" /\ m.ev = <<>>, g.cw),
             mw |-> mw_next(e, cpu, ram, m.exc = "none" /\ m.ev = <<>>, g.mw),
             since3 |-> since3_next("execute", cpu, m.cpu, g.since3),
             succ |-> IF m.exc = "none" /\ m.ev = <<>> THEN <<succ_of(cpu, inst)>> ELSE <<>>,
             resume |-> resume_next(e, cpu, m, g.resume),
             resumed |-> IF e = INST_MRET /\ m.exc = "none" /\ m.ev = <<>>
                         THEN g.resume ELSE <<>>,
             pin |-> g.pin,
             fetched |-> 0,
             io |-> m.io,
             due |-> g.due]

\* the loop after state.cpu.execute(inst) left the emulator as m
RanExecute(m) ==
    /\ cpu' = m.cpu /\ ram' = m.ram /\ tmr' = m.tmr /\ ev' = m.ev
    /\ state' = after_call(m)
    /\ phase' = IF state.options.timer THEN "timer_update" ELSE "commit"

Executed(m, inst, e) == RanExecute(m) /\ g' = executed_g(m, inst, e)

\* state.cpu.execute(inst), inst the word fetched at pc; limit is the
\* instruction_count argument of run_chunk
Execute(inst, limit) ==
    /\ state.running /\ phase = "execute"
    /\ state.instruction_count < limit
    /\ Executed(execute(Emu, inst), inst, effective(cpu, inst))

\* the loop after state.cpu.timer_update() left the emulator as m
TimerUpdated(m) ==
    /\ cpu' = m.cpu /\ ev' = m.ev
    /\ state' = after_call(m)
    /\ phase' = "commit"
    /\ g' = [g EXCEPT !.call = "timer_update",
                      !.since3 = since3_next("timer_update", cpu, m.cpu, @),
                      !.resume = IF async_taken(m.ev) THEN g.succ ELSE @,
                      !.due = timer_due(cpu) /\ ~timer_taken(m.ev)]

\* the fetch raised exc after asking for n bytes: the except clauses of
\* run_chunk, the end of the script for run_unit_tests.py
FetchFailed(exc, n) ==
    /\ state' = [state EXCEPT !.running = FALSE, !.exit_info = exc]
    /\ ev' = <<>>
    /\ g' = [g EXCEPT !.call = "fetch", !.fetched = n]
    /\ UNCHANGED <<cpu, ram, tmr, phase>>

\* run_chunk once inst = state.ram.load_word(state.cpu.pc) returned f
FetchedWord(f) ==
    IF f.exc # "none" THEN FetchFailed(f.exc, 4)
    ELSE /\ RanExecute(execute(Emu, f.val))
         /\ g' = [executed_g(execute(Emu, f.val), f.val, effective(cpu, f.val))
                     EXCEPT !.fetched = 4]

\* run_chunk: the fetch of the full word at pc and state.cpu.execute(inst)
FetchExecute(limit) ==
    /\ state.running /\ phase = "execute"
    /\ state.instruction_count < limit
    /\ FetchedWord(load_word(Emu, cpu.pc))

\* run_unit_tests.py: tohost, the word the test program reports through (the
\* first word of the RAM here)
tohost_addr(r) == r.base_addr
SENTINEL == <<B16 - 1, B16 - 1>>

\* run_unit_tests.py, the end of an iteration that left the emulator as m
\* after fetching n bytes: cpu.pc = cpu.next_pc, then the look at tohost
UnitTestLooped(m, n, inst) ==
    /\ ram' = m.ram /\ tmr' = m.tmr /\ ev' = m.ev
    /\ cpu' = IF m.exc = "none" THEN [m.cpu EXCEPT !.pc = m.cpu.next_pc] ELSE m.cpu
    /\ state' = IF m.exc # "none" THEN after_call(m)
                ELSE [state EXCEPT !.instruction_count = @ + 1,
                                   !.running = (load_word(m, tohost_addr(m.ram)).val = SENTINEL),
                                   !.exit_info = IF load_word(m, tohost_addr(m.ram)).val = SENTINEL
                                                 THEN @ ELSE "tohost"]
    /\ g' = [executed_g(m, inst, effective(cpu, inst))
                EXCEPT !.call = "unit_test", !.fetched = n]
    /\ UNCHANGED phase

\* run_unit_tests.py once inst_high = ram.load_half(cpu.pc + 2) returned hi
UnitTestFetchedHigh(lo, hi) ==
    IF hi.exc # "none" THEN FetchFailed(hi.exc, 4)
    ELSE UnitTestLooped(execute(Emu, <<hi.val, lo>>), 4, <<hi.val, lo>>)

\* run_unit_tests.py once inst_low = ram.load_half(cpu.pc) returned lo
UnitTestFetched(lo) ==
    IF lo.exc # "none" THEN FetchFailed(lo.exc, 2)
    ELSE IF lo.val % 4 = 3
    THEN UnitTestFetchedHigh(lo.val, load_half(Emu, add32(cpu.pc, w32(2)), FALSE))
    ELSE UnitTestLooped(execute(Emu, <<0, lo.val>>), 2, <<0, lo.val>>)

\* run_unit_tests.py, one iteration of the loop: the check of pc, the fetch
\* by parcels, cpu.execute(inst), cpu.pc = cpu.next_pc
UnitTestStep(limit) ==
    /\ state.running /\ phase = "unit_test"
    /\ state.instruction_count < limit
    /\ IF cpu.pc[2] % 2 = 1
       THEN UnitTestLooped(trap(Emu, Zero, cpu.pc, TRUE), 0, Zero)
       ELSE UnitTestFetched(load_half(Emu, cpu.pc, FALSE))

\* state.cpu.timer_update(), when the timer option is on
TimerUpdate ==
    /\ state.running /\ phase = "timer_update"
    /\ TimerUpdated(timer_update(Emu))
    /\ UNCHANGED <<ram, tmr>>

\* state.cpu.pc = state.cpu.next_pc; state.instruction_count += 1
CommitPC ==
    /\ state.running /\ phase = "commit"
    /\ cpu' = [cpu EXCEPT !.pc = cpu.next_pc]
    /\ state' = [state EXCEPT !.instruction_count = @ + 1]
    /\ phase' = "execute"
    /\ ev' = <<>>
    /\ g' = [g EXCEPT !.call = "commit"]
    /\ UNCHANGED <<ram, tmr>>

\* a peripheral or the host calls cpu.assert_external_interrupt() between
\* two instructions
AssertExternalInterrupt ==
    /\ state.running /\ phase = "execute"
    /\ cpu' = assert_external_interrupt(Emu).cpu
    /\ ev' = <<>>
    /\ g' = [g EXCEPT !.call = "assert_external_interrupt", !.pin = TRUE]
    /\ UNCHANGED <<ram, tmr, state, phase>>

\* an interrupt handler or the host calls cpu.clear_external_interrupt()
\* between two instructions
ClearExternalInterrupt ==
    /\ state.running /\ phase = "execute"
    /\ cpu' = clear_external_interrupt(Emu).cpu
    /\ ev' = <<>>
    /\ g' = [g EXCEPT !.call = "clear_external_interrupt", !.pin = FALSE]
    /\ UNCHANGED <<ram, tmr, state, phase>>

\* the machine as built by the host: c the CPU (registers as init_registers
\* or the host left them), r the RAM
Start(c, r, timer) ==
    /\ cpu = c /\ ram = r /\ tmr = MMIOTimer_init
    /\ state = EmulatorState(timer)
    /\ phase = "execute"
    /\ ev = <<>>
    /\ g = [G_init EXCEPT !.since3 = IF armed(c) THEN 0 ELSE -1]

\* ---- instruction words ----------------------------------------------------
CSRRW(rd, csr, rs1) == enc(csr, rs1, 1, rd, 115)
CSRRS(rd, csr, rs1) == enc(csr, rs1, 2, rd, 115)
CSRRWI(rd, csr, zimm) == enc(csr, zimm, 5, rd, 115)
CSRRSI(rd, csr, zimm) == enc(csr, zimm, 6, rd, 115)
LW(rd, imm, rs1) == enc(imm, rs1, 2, rd, 3)
SB(rs2, imm, rs1) == enc((imm \div 32) * 32 + rs2, rs1, 0, imm % 32, 35)
SH(rs2, imm, rs1) == enc((imm \div 32) * 32 + rs2, rs1, 1, imm % 32, 35)
SW(rs2, imm, rs1) == enc((imm \div 32) * 32 + rs2, rs1, 2, imm % 32, 35)
ADDI(rd, rs1, imm) == enc(imm, rs1, 0, rd, 19)
JAL(rd, imm) ==
    enc(((imm \div 1048576) % 2) * 2048 + ((imm \div 2) % 1024) * 2 + ((imm \div 2048) % 2),
        (imm \div 32768) % 32, (imm \div 4096) % 8, rd, 111)
JALR(rd, rs1, imm) == enc(imm, rs1, 0, rd, 103)
BEQ(rs1, rs2, imm) ==
    enc(((imm \div 4096) % 2) * 2048 + ((imm \div 32) % 64) * 32 + rs2, rs1, 0,
        ((imm \div 2) % 16) * 2 + ((imm \div 2048) % 2), 99)
CSRRC(rd, csr, rs1) == enc(csr, rs1, 3, rd, 115)
CSRRCI(rd, csr, zimm) == enc(csr, zimm, 7, rd, 115)
LR_W(rd, rs1) == enc(8 * 32, rs1, 2, rd, 47)
SC_W(rd, rs2, rs1) == enc(12 * 32 + rs2, rs1, 2, rd, 47)
AMOSWAP_W(rd, rs2, rs1) == enc(4 * 32 + rs2, rs1, 2, rd, 47)
\* C.LI x0, 5 as the low half of a fetched word
C_LI_X0_5 == <<0, 16405>>
\* an all-zero word: no opcode when executed as 32 bits, an illegal
\* compressed instruction when executed as 16
ALL_ZERO == Zero

\* ---- traps, CSR instructions, MRET and x0 ----------------------------------
MaxSteps == 3

\* the value the host leaves in t0 (x5), and the handler address a host
\* stores in csrs[0x305]
T0_VALUE == <<32768, 2187>>
HOST_MTVEC == <<57005, 0>>

Menu ==
    {INST_MRET, INST_ECALL,
     CSRRW(6, CSR_MARCHID, 5), CSRRWI(0, CSR_MHARTID, 3),
     CSRRW(0, CSR_MEPC, 5), CSRRW(0, CSR_MSTATUS, 5), CSRRW(0, CSR_MIE, 5),
     LW(0, 0, 0), SC_W(0, 5, 0), C_LI_X0_5, ALL_ZERO}

Init ==
    \E rvc \in BOOLEAN, mtvec \in {Zero, HOST_MTVEC}, timer \in BOOLEAN :
        Start([CPU_init(rvc) EXCEPT !.registers[5] = T0_VALUE,
                                    !.csrs[CSR_MTVEC] = mtvec],
              RAM_init("RAM"), timer)

Next ==
    \/ \E inst \in Menu : Execute(inst, MaxSteps)
    \/ TimerUpdate
    \/ CommitPC
    \/ AssertExternalInterrupt

Spec == Init /\ [][Next]_vars

\* mstatus without its MIE and MPIE bits
other_mstatus_bits(mstatus) == andnot32(mstatus, w32(2^MIE_BIT + 2^MPIE_BIT))

\* C1: every trap taken while mtvec != 0, synchronous or asynchronous, leaves
\* mcause = cause, mtval = the supplied value, mepc = pc (synchronous) or
\* next_pc (asynchronous), mstatus.MPIE = the old mstatus.MIE, mstatus.MIE = 0,
\* every other mstatus bit unchanged, and next_pc = mtvec & ~0x3, which the
\* loop then commits to pc.
C1_TrapEffects ==
    [][/\ \A i \in 1..Len(ev') :
            ev'[i].taken =>
               /\ cpu.csrs[CSR_MTVEC] # Zero
               /\ cpu'.csrs[CSR_MCAUSE] = ev'[i].cause
               /\ cpu'.csrs[CSR_MTVAL] = ev'[i].mtval
               /\ cpu'.csrs[CSR_MEPC] = IF ev'[i].sync THEN cpu.pc ELSE cpu.next_pc
               /\ bit32(cpu'.csrs[CSR_MSTATUS], MPIE_BIT) = bit32(cpu.csrs[CSR_MSTATUS], MIE_BIT)
               /\ bit32(cpu'.csrs[CSR_MSTATUS], MIE_BIT) = 0
               /\ other_mstatus_bits(cpu'.csrs[CSR_MSTATUS])
                      = other_mstatus_bits(cpu.csrs[CSR_MSTATUS])
               /\ cpu'.next_pc = andnot32(cpu.csrs[CSR_MTVEC], w32(3))
       /\ g'.call = "commit" => cpu'.pc = cpu.next_pc]_vars

\* C1 happens: an external interrupt was taken by timer_update with
\* interrupts enabled, after earlier instructions set mstatus and mie
C1_Witness ==
    /\ g.call = "timer_update"
    /\ Len(ev) = 1 /\ ev[1].taken /\ ~ev[1].sync
    /\ cpu.csrs[CSR_MCAUSE] = MEI_CAUSE
    /\ bit32(cpu.csrs[CSR_MSTATUS], MPIE_BIT) = 1

\* C2: an MRET with an aligned mepc sets next_pc = mepc, mstatus.MIE = the old
\* mstatus.MPIE, mstatus.MPIE = 1 and leaves the other mstatus bits; with a
\* misaligned mepc it traps with cause 0 and mtval = mepc instead.
C2_Mret ==
    [][(g'.call = "execute" /\ g'.inst = INST_MRET) =>
          LET mepc == cpu.csrs[CSR_MEPC]
          IN IF and32(mepc, w32(cpu.alignment_mask)) = Zero
             THEN /\ ev' = <<>>
                  /\ cpu'.next_pc = mepc
                  /\ bit32(cpu'.csrs[CSR_MSTATUS], MIE_BIT)
                         = bit32(cpu.csrs[CSR_MSTATUS], MPIE_BIT)
                  /\ bit32(cpu'.csrs[CSR_MSTATUS], MPIE_BIT) = 1
                  /\ other_mstatus_bits(cpu'.csrs[CSR_MSTATUS])
                         = other_mstatus_bits(cpu.csrs[CSR_MSTATUS])
             ELSE /\ Len(ev') = 1 /\ ev'[1].cause = Zero /\ ev'[1].mtval = mepc
                  /\ cpu.csrs[CSR_MTVEC] # Zero =>
                         /\ cpu'.csrs[CSR_MCAUSE] = Zero
                         /\ cpu'.csrs[CSR_MTVAL] = mepc
                         /\ cpu'.next_pc = andnot32(cpu.csrs[CSR_MTVEC], w32(3))]_vars

\* C2 happens: an MRET returned (no trap) and re-enabled interrupts from a
\* set MPIE
C2_Witness ==
    /\ g.call = "execute" /\ g.inst = INST_MRET
    /\ state.running /\ ev = <<>>
    /\ bit32(cpu.csrs[CSR_MSTATUS], MIE_BIT) = 1
    /\ cpu.next_pc = cpu.csrs[CSR_MEPC]

\* C3: whenever execute_32 or execute_16 has returned, x0 holds 0, whatever
\* the instruction's rd was.
C3_X0IsZero ==
    (g.call = "execute" /\ state.running) => cpu.registers[0] = Zero

\* C3 happens: a load with rd = 0 of a non-zero word retired
C3_Witness ==
    /\ g.call = "execute" /\ g.inst = LW(0, 0, 0)
    /\ state.running /\ ev = <<>>
    /\ word_at(ram, 0) # Zero

\* C4: a CSRRW / CSRRWI to a read-only CSR with mtvec != 0 transfers control
\* to mtvec with mcause = 2 and leaves the CSR's value as it was.
C4_ReadOnlyCsrUnchanged ==
    [][(/\ g'.call = "execute" /\ is_csrrw(g'.inst)
        /\ csr_of(g'.inst) \in CSR_RO
        /\ cpu.csrs[CSR_MTVEC] # Zero) =>
          /\ cpu'.next_pc = andnot32(cpu.csrs[CSR_MTVEC], w32(3))
          /\ cpu'.csrs[CSR_MCAUSE] = w32(2)
          /\ cpu'.csrs[csr_of(g'.inst)] = cpu.csrs[csr_of(g'.inst)]]_vars

\* ---- LR.W / SC.W and stores -------------------------------------------------
MaxStepsAtomic == 5

\* C.SW x9, 0(x8) as the low half of a fetched word
C_SW_X9_X8 == <<0, 49156>>

MenuAtomic ==
    {LR_W(10, 2), SW(0, 0, 2), SB(5, 4, 2), SH(5, 2, 2), C_SW_X9_X8,
     SC_W(11, 5, 2), SC_W(11, 5, 6), ADDI(7, 7, 1)}

\* sp (x2) = 0 and t1 (x6) = 4 address the two words of the RAM
InitAtomic ==
    \E rvc \in BOOLEAN :
        Start([CPU_init(rvc) EXCEPT !.registers[5] = T0_VALUE,
                                    !.registers[6] = w32(4),
                                    !.csrs[CSR_MTVEC] = HOST_MTVEC],
              RAM_init("RAM"), FALSE)

NextAtomic ==
    \/ \E inst \in MenuAtomic : Execute(inst, MaxStepsAtomic)
    \/ CommitPC

SpecAtomic == InitAtomic /\ [][NextAtomic]_vars

\* the step is an execute of a word that retired: it neither raised nor trapped
retired_step == g'.call = "execute" /\ state'.running /\ ev' = <<>>

\* C5: right after every SB / SH / SW that completes and every SC.W that
\* executes, successful or not, the reservation is invalid.
C5_ReservationCleared ==
    [][(retired_step /\ (\/ is_store(effective(cpu, g'.inst))
                         \/ is_sc(effective(cpu, g'.inst)))) =>
          ~cpu'.reservation_valid]_vars

\* C6: LR.W at A, then instructions with at least one completed SB / SH / SW
\* and no further LR.W, then SC.W at A: the SC.W writes 1 to rd and leaves
\* the memory as it was.
C6_StoreBreaksReservation ==
    [][(/\ g'.call = "execute" /\ is_sc(effective(cpu, g'.inst))
        /\ g.lrsc.st = "lr_store"
        /\ cpu.registers[rs1_of(g'.inst)] = g.lrsc.addr) =>
          /\ retired_step
          /\ rd_of(g'.inst) # 0 => cpu'.registers[rd_of(g'.inst)] = w32(1)
          /\ ram' = ram]_vars

\* C6 happens: SC.W a1, t0, (sp) ran after LR.W a0, (sp) and a store, and
\* a1 holds 1
C6_Witness ==
    /\ g.call = "execute" /\ g.inst = SC_W(11, 5, 2)
    /\ g.lrsc.st = "lr_store" /\ g.lrsc.addr = cpu.registers[2]
    /\ cpu.registers[11] = w32(1)
    /\ state.running

\* ---- the 64-bit counters through the CSR shadows and the MMIO registers -----
MaxStepsShadow == 5

\* t2 (x7) and t3 (x28) hold the addresses of mtime_lo and mtimecmp_lo
MenuShadow ==
    {CSRRW(0, CSR_MTIME_LO, 5), CSRRW(0, CSR_MTIME_HI, 6),
     CSRRS(0, CSR_MTIME_LO, 5), CSRRS(0, CSR_MTIME_HI, 6),
     CSRRW(0, CSR_MTIMECMP_LO, 5), CSRRWI(0, CSR_MTIMECMP_HI, 2),
     SW(5, 0, 7), SW(6, 4, 7), SW(5, 0, 28), SW(6, 4, 28)}

InitShadow ==
    Start([CPU_init(TRUE) EXCEPT !.registers[5] = T0_VALUE,
                                 !.registers[6] = w32(1),
                                 !.registers[7] = REG_MTIME_LO,
                                 !.registers[28] = REG_MTIMECMP_LO,
                                 !.csrs[CSR_MTVEC] = HOST_MTVEC],
          RAM_init("RAM_MMIO"), TRUE)

NextShadow ==
    \/ \E inst \in MenuShadow : Execute(inst, MaxStepsShadow)
    \/ TimerUpdate
    \/ CommitPC

SpecShadow == InitShadow /\ [][NextShadow]_vars

\* the two 64-bit counters of a CPU, by name
counters(c) == [mtime |-> c.mtime, mtimecmp |-> c.mtimecmp]
other_counter(k) == IF k = "mtime" THEN "mtimecmp" ELSE "mtime"

\* the counter named k is (hi << 32) | lo of the halves h when both have
\* been written, and what it was otherwise
committed_or_kept(k, h) ==
    IF both(h)
    THEN counters(cpu')[k] = time64(h.hi[1], h.lo[1])
    ELSE counters(cpu')[k] = counters(cpu)[k]

\* C7: a write through the CSR shadows 0x7C0-0x7C3 to one half of mtime (of
\* mtimecmp) alone since the last commit leaves the 64-bit counter as it
\* was; the write that completes both halves, in either order and with ticks
\* in between, makes the counter (hi << 32) | lo of the written values.
C7_ShadowHalves ==
    [][(g'.call = "execute" /\ shadow_write(cpu, effective(cpu, g'.inst))) =>
          /\ retired_step
          /\ committed_or_kept(csr_counter(csr_of(effective(cpu, g'.inst))),
                               cw_halves(effective(cpu, g'.inst), cpu, g.cw))]_vars

\* C8: a word store to one half of mtime (of mtimecmp) through the MMIO timer
\* registers leaves both 64-bit counters of the CPU as they were; the store
\* that completes both halves since the last commit, in either order,
\* commits (hi << 32) | lo to that counter and leaves the other one.
C8_MmioHalves ==
    [][(g'.call = "execute" /\ mmio_write(cpu, ram, effective(cpu, g'.inst))) =>
          /\ retired_step
          /\ committed_or_kept(reg_counter(store_addr(cpu, effective(cpu, g'.inst))),
                               mw_halves(effective(cpu, g'.inst), cpu, g.mw))
          /\ counters(cpu')[other_counter(reg_counter(store_addr(cpu, effective(cpu, g'.inst))))]
                 = counters(cpu)[other_counter(reg_counter(store_addr(cpu, effective(cpu, g'.inst))))]]_vars

\* C8 happens: the store to mtime_hi came after a store to mtime_lo and at
\* least one tick, and mtime is the two stored words
C8_Witness ==
    /\ g.call = "execute" /\ g.inst = SW(6, 4, 7)
    /\ state.running /\ state.instruction_count >= 1
    /\ g.mw.mtime = NoHalves
    /\ cpu.mtime = time64(w32(1), T0_VALUE)

\* ---- the timer interrupt ----------------------------------------------------
MaxStepsIrq == 6

\* t2 (x7) holds mie.MTIE, t0 (x5) the low word of a compare value and
\* t3 (x28) the address of mtimecmp_lo
MenuIrq ==
    {ADDI(0, 0, 0), CSRRSI(0, CSR_MSTATUS, 8), CSRRW(0, CSR_MIE, 7),
     CSRRWI(0, CSR_MTIMECMP_LO, 6), CSRRWI(0, CSR_MTIMECMP_LO, 1),
     CSRRWI(0, CSR_MTIMECMP_HI, 0),
     SW(5, 0, 28), SW(0, 4, 28)}

InitIrq ==
    Start([CPU_init(TRUE) EXCEPT !.registers[5] = w32(6),
                                 !.registers[7] = w32(2^MTI_BIT),
                                 !.registers[28] = REG_MTIMECMP_LO,
                                 !.csrs[CSR_MTVEC] = HOST_MTVEC],
          RAM_init("RAM_MMIO"), TRUE)

NextIrq ==
    \/ \E inst \in MenuIrq : Execute(inst, MaxStepsIrq)
    \/ TimerUpdate
    \/ CommitPC

SpecIrq == InitIrq /\ [][NextIrq]_vars

\* the step is a write that completes both halves of a counter, through the
\* CSR shadows or through the MMIO registers
commit_step ==
    /\ retired_step
    /\ \/ /\ shadow_write(cpu, effective(cpu, g'.inst))
          /\ both(cw_halves(effective(cpu, g'.inst), cpu, g.cw))
       \/ /\ mmio_write(cpu, ram, effective(cpu, g'.inst))
          /\ both(mw_halves(effective(cpu, g'.inst), cpu, g.mw))

\* C9: after every timer tick, and after every CSR or MMIO write that commits
\* a 64-bit mtime or mtimecmp, bit 7 of mip is set exactly when
\* mtime >= mtimecmp.
C9_MtipTracksCompare ==
    [][((g'.call = "timer_update" /\ state'.running) \/ commit_step) =>
          (bit32(cpu'.csrs[CSR_MIP], MTI_BIT) = 1
              <=> time_ge(cpu'.mtime, cpu'.mtimecmp))]_vars

\* C10: from mstatus.MIE = 1, mie.MTIE = 1, mtvec != 0 and mtimecmp =
\* mtime + 3, the third timer tick takes a trap with mcause = 0x80000007,
\* mepc = the pc of the next instruction, mstatus.MIE = 0 and mstatus.MPIE =
\* 1, and the first and the second tick take no such trap.
C10_TrapOnThirdTick ==
    [][(g'.call = "timer_update") =>
          /\ g.since3 = 2 =>
                /\ Len(ev') = 1 /\ ev'[1].taken /\ ev'[1].cause = MTI_CAUSE
                /\ cpu'.csrs[CSR_MCAUSE] = MTI_CAUSE
                /\ cpu'.csrs[CSR_MEPC] = cpu.next_pc
                /\ bit32(cpu'.csrs[CSR_MSTATUS], MIE_BIT) = 0
                /\ bit32(cpu'.csrs[CSR_MSTATUS], MPIE_BIT) = 1
          /\ g.since3 \in {0, 1} =>
                \A i \in 1..Len(ev') : ev'[i].cause # MTI_CAUSE]_vars

\* ---- interrupts at instruction boundaries -----------------------------------
MaxStepsIntr == 4

\* C.LI x8, 1 as the low half of a fetched word
C_LI_X8_1 == <<0, 17413>>

\* t0 (x5) = T0_VALUE has MIE (bit 3), MTIP/MTIE (bit 7) and MEIP/MEIE (bit 11)
MenuIntr ==
    {CSRRW(0, CSR_MIE, 5), CSRRW(0, CSR_MSTATUS, 5), CSRRW(0, CSR_MIP, 5),
     INST_MRET, JAL(0, 8), C_LI_X8_1}

InitIntr ==
    \E rvc \in BOOLEAN, timer \in BOOLEAN :
        Start([CPU_init(rvc) EXCEPT !.registers[5] = T0_VALUE,
                                    !.csrs[CSR_MTVEC] = HOST_MTVEC],
              RAM_init("RAM"), timer)

NextIntr ==
    \/ \E inst \in MenuIntr : Execute(inst, MaxStepsIntr)
    \/ TimerUpdate
    \/ CommitPC
    \/ AssertExternalInterrupt
    \/ ClearExternalInterrupt

SpecIntr == InitIntr /\ [][NextIntr]_vars

\* C11: an asynchronous interrupt taken at the end of a step stores in mepc
\* the address that follows the retired instruction in the program's order
\* (its target if it transferred control, pc + its size otherwise), and the
\* handler's MRET makes that address the next pc, which the loop commits:
\* the retired instruction is not run again and none is skipped.
C11_InterruptResumes ==
    [][/\ (g'.call = "timer_update" /\ async_taken(ev')) =>
             /\ g.succ # <<>>
             /\ cpu'.csrs[CSR_MEPC] = g.succ[1]
             /\ g.succ[1] = cpu.next_pc
       /\ (retired_step /\ g'.inst = INST_MRET /\ g.resume # <<>>) =>
             cpu'.next_pc = g.resume[1]
       /\ g'.call = "commit" => cpu'.pc = cpu.next_pc]_vars

\* C11 happens: the JAL at 8 that jumps to 16 was interrupted, and the
\* handler's MRET resumes at 16
C11_Witness ==
    /\ g.call = "execute" /\ g.inst = INST_MRET /\ state.running
    /\ g.resumed = <<w32(16)>>
    /\ cpu.next_pc = w32(16)
    /\ cpu.csrs[CSR_MCAUSE] = MEI_CAUSE

\* ---- synchronous traps ------------------------------------------------------
\* a synchronous trap was taken by the call that left the log trapped
sync_taken(trapped) ==
    \E i \in 1..Len(trapped) : trapped[i].taken /\ trapped[i].sync

\* C12: an instruction that takes a synchronous trap to a handler leaves mepc
\* equal to its own pc and all 32 general-purpose registers as they were.
C12_SyncTrapKeepsRegisters ==
    [][(g'.call = "execute" /\ sync_taken(ev')) =>
           /\ cpu'.csrs[CSR_MEPC] = cpu.pc
           /\ cpu'.registers = cpu.registers]_vars

\* ---- interrupt masking and priority -----------------------------------------
\* mstatus.MIE of a hart, and an interrupt that is pending and enabled
mie_of(c) == bit32(c.csrs[CSR_MSTATUS], MIE_BIT)
pending_enabled(c, k) ==
    bit32(c.csrs[CSR_MIP], k) = 1 /\ bit32(c.csrs[CSR_MIE], k) = 1

\* C13: a timer tick raises no interrupt trap while mstatus.MIE is 0; every
\* taken trap leaves MIE 0, and MIE goes from 0 to 1 only by an executed MRET
\* or a CSR instruction on mstatus, so from a trap until one of these no
\* asynchronous interrupt is taken, whatever is pending and enabled.
C13_MaskedWhileMieClear ==
    [][/\ (g'.call = "timer_update" /\ mie_of(cpu) = 0) => ev' = <<>>
       /\ (\E i \in 1..Len(ev') : ev'[i].taken) => mie_of(cpu') = 0
       /\ (mie_of(cpu) = 0 /\ mie_of(cpu') = 1) =>
             /\ g'.call = "execute"
             /\ \/ g'.inst = INST_MRET
                \/ csr_writes(cpu, g'.inst) /\ csr_of(g'.inst) = CSR_MSTATUS]_vars

\* C13 happens: inside the handler of an external interrupt a tick finds the
\* interrupt still pending and enabled and takes no trap
C13_Witness ==
    /\ g.call = "timer_update" /\ ev = <<>>
    /\ mie_of(cpu) = 0
    /\ cpu.csrs[CSR_MCAUSE] = MEI_CAUSE
    /\ cpu.pc # HOST_MTVEC
    /\ pending_enabled(cpu, MEI_BIT)

\* one asynchronous trap of the given cause, taken
one_interrupt(cause) == <<TrapCall(cause, Zero, FALSE, TRUE)>>

\* C14: a tick with MIE = 1 that finds the timer interrupt pending and
\* enabled takes exactly one trap, with mcause 0x80000007, also when the
\* external interrupt is pending and enabled too; the external interrupt
\* (0x8000000B) is taken only when it is pending and enabled and the timer
\* interrupt is not.
C14_TimerBeforeExternal ==
    [][(g'.call = "timer_update" /\ mie_of(cpu) = 1) =>
          /\ pending_enabled(cpu', MTI_BIT) =>
                ev' = one_interrupt(MTI_CAUSE) /\ cpu'.csrs[CSR_MCAUSE] = MTI_CAUSE
          /\ (pending_enabled(cpu', MEI_BIT) /\ ~pending_enabled(cpu', MTI_BIT)) =>
                ev' = one_interrupt(MEI_CAUSE) /\ cpu'.csrs[CSR_MCAUSE] = MEI_CAUSE
          /\ (\E i \in 1..Len(ev') : ev'[i].cause = MEI_CAUSE) =>
                pending_enabled(cpu', MEI_BIT) /\ ~pending_enabled(cpu', MTI_BIT)]_vars

\* C14 happens: both interrupts were pending and enabled and the timer
\* interrupt was the one taken
C14_Witness ==
    /\ g.call = "timer_update" /\ ev = one_interrupt(MTI_CAUSE)
    /\ pending_enabled(cpu, MTI_BIT) /\ pending_enabled(cpu, MEI_BIT)

\* ---- the external interrupt pin ---------------------------------------------
\* the step that ended with state.cpu.execute(inst) found the external
\* interrupt asserted, enabled and unmasked, with a handler installed
external_ready ==
    /\ g.call = "execute" /\ state.running
    /\ g.pin /\ pending_enabled(cpu, MEI_BIT)
    /\ mie_of(cpu) = 1
    /\ cpu.csrs[CSR_MTVEC] # Zero

\* C15: once assert_external_interrupt() has been called, a step that ends
\* with MIE and MEIE set (mtvec # 0, no enabled timer interrupt pending) takes
\* the external interrupt, mcause 0x8000000B, at its end, with the timer
\* option on and with it off; after clear_external_interrupt() MEIP is clear
\* and a tick that finds it clear takes no external interrupt.
C15_ExternalInterruptTaken ==
    [][/\ (external_ready /\ ~pending_enabled(cpu', MTI_BIT)) =>
             /\ g'.call = "timer_update"
             /\ ev' = one_interrupt(MEI_CAUSE)
             /\ cpu'.csrs[CSR_MCAUSE] = MEI_CAUSE
       /\ g'.call = "clear_external_interrupt" =>
             bit32(cpu'.csrs[CSR_MIP], MEI_BIT) = 0
       /\ (g'.call = "timer_update" /\ bit32(cpu.csrs[CSR_MIP], MEI_BIT) = 0) =>
             \A i \in 1..Len(ev') : ev'[i].cause # MEI_CAUSE]_vars

\* ---- a trap without a handler -----------------------------------------------
\* next_pc when the instruction calls trap: execute_16 traps an unexpandable
\* halfword before it sets next_pc, every other trap comes after pc + size
\* was stored
next_pc_at_trap(c, inst) ==
    IF /\ c.rvc_enabled /\ inst[2] % 4 # 3
       /\ inst[2] \notin DOMAIN c.decode_cache_compressed
       /\ ~expand_compressed(inst[2]).success
    THEN c.next_pc
    ELSE add32(c.pc, w32(size_of(c, inst)))

\* the CSRs that trap updates
TrapCsrs == {CSR_MEPC, CSR_MCAUSE, CSR_MTVAL, CSR_MSTATUS}

\* C16: trap(cause, mtval, sync) called while mtvec = 0 ends execution with
\* the execution-terminated error, which carries the name of the cause, and
\* updates nothing: mepc, mcause, mtval, mstatus and next_pc are what they
\* were when trap was called.
C16_TrapWithoutHandler ==
    [][\A i \in 1..Len(ev') : ~ev'[i].taken =>
          /\ cpu.csrs[CSR_MTVEC] = Zero
          /\ ~state'.running /\ state'.exit_info = "ExecutionTerminated"
          /\ ev'[i].name # "Unknown"
          /\ ev'[i].cause = w32(2) => ev'[i].name = "Illegal instruction"
          /\ ev'[i].cause = w32(0) => ev'[i].name = "Instruction address misaligned"
          /\ ev'[i].cause = MEI_CAUSE => ev'[i].name = "Machine external interrupt"
          /\ \A k \in TrapCsrs : cpu'.csrs[k] = cpu.csrs[k]
          /\ cpu'.next_pc = IF g'.call = "execute" THEN next_pc_at_trap(cpu, g'.inst)
                            ELSE cpu.next_pc]_vars

\* C16 happens: the misaligned MRET trapped without a handler, with mepc and
\* mstatus written before and mcause still clear
C16_Witness ==
    /\ g.call = "execute" /\ g.inst = INST_MRET
    /\ Len(ev) = 1 /\ ~ev[1].taken /\ ev[1].cause = w32(0)
    /\ cpu.csrs[CSR_MEPC] = T0_VALUE
    /\ cpu.csrs[CSR_MCAUSE] = Zero
    /\ ~state.running

\* ---- control transfers and the alignment of pc ------------------------------
MaxStepsJump == 4

\* the registers the jumps and the mepc writes use
JUMP_BASE == w32(256)
MEPC_ODD == w32(515)
MEPC_HALF == w32(514)

MenuJump ==
    {JAL(0, 8), JAL(5, 6), JALR(6, 5, 2), JALR(0, 5, 1), BEQ(0, 0, 6), BEQ(0, 5, 6),
     CSRRW(0, CSR_MEPC, 7), CSRRW(0, CSR_MEPC, 28), INST_MRET, C_LI_X8_1}

InitJump ==
    \E rvc \in BOOLEAN, timer \in BOOLEAN :
        Start([CPU_init(rvc) EXCEPT !.registers[5] = JUMP_BASE,
                                    !.registers[7] = MEPC_ODD,
                                    !.registers[28] = MEPC_HALF,
                                    !.csrs[CSR_MTVEC] = HOST_MTVEC],
              RAM_init("RAM"), timer)

NextJump ==
    \/ \E inst \in MenuJump : Execute(inst, MaxStepsJump)
    \/ TimerUpdate
    \/ CommitPC

SpecJump == InitJump /\ [][NextJump]_vars

\* an address that is no instruction address: not a multiple of 4 with the
\* compressed extension off, not a multiple of 2 with it on
misaligned(c, addr) == addr[2] % (IF c.rvc_enabled THEN 2 ELSE 4) # 0

\* C17: the pc an instruction is fetched at is a multiple of 4 (RVC off) or of
\* 2 (RVC on) in every state reached from the aligned initial pc; a taken
\* branch, JAL, JALR (bit 0 of the target cleared) or MRET whose target is not
\* traps with mcause 0 and mtval = the target, and the target is not committed.
C17_PcAligned ==
    [][/\ (state'.running /\ phase' = "execute") => ~misaligned(cpu', cpu'.pc)
       /\ ( /\ g'.call = "execute"
            /\ transfers(cpu, effective(cpu, g'.inst))
            /\ misaligned(cpu, target_of(cpu, effective(cpu, g'.inst))) ) =>
             /\ ev' = <<TrapCall(Zero, target_of(cpu, effective(cpu, g'.inst)), TRUE, TRUE)>>
             /\ cpu'.csrs[CSR_MCAUSE] = Zero
             /\ cpu'.csrs[CSR_MTVAL] = target_of(cpu, effective(cpu, g'.inst))
             /\ cpu'.next_pc = HOST_MTVEC
             /\ cpu'.registers = cpu.registers]_vars

\* C17 happens: with the compressed extension on, the program runs at an
\* address that is 2 modulo 4 and the MRET to the odd mepc has trapped
C17_Witness ==
    /\ g.call = "execute" /\ g.inst = INST_MRET
    /\ cpu.rvc_enabled /\ cpu.pc[2] % 4 = 2
    /\ ev = <<TrapCall(Zero, MEPC_ODD, TRUE, TRUE)>>
    /\ cpu.next_pc = HOST_MTVEC

\* ---- toggling misa.C (test_rvc_toggle.py) -----------------------------------
MaxStepsToggle == 3

\* bit 2 of misa: the C extension
MISA_C == w32(4)

\* test_rvc_toggle.py: cpu.csrs[0x301] &= ~0x4, then the cache
\* cpu.rvc_enabled is recomputed from misa
DisableRvc ==
    /\ state.running /\ phase = "execute"
    /\ cpu' = [cpu EXCEPT !.csrs[CSR_MISA] = andnot32(@, MISA_C),
                          !.rvc_enabled = FALSE]
    /\ ev' = <<>>
    /\ g' = [g EXCEPT !.call = "disable_rvc"]
    /\ UNCHANGED <<ram, tmr, state, phase>>

\* test_rvc_toggle.py: cpu.csrs[0x301] |= 0x4, then the cache
\* cpu.rvc_enabled is recomputed from misa
EnableRvc ==
    /\ state.running /\ phase = "execute"
    /\ cpu' = [cpu EXCEPT !.csrs[CSR_MISA] = or32(@, MISA_C),
                          !.rvc_enabled = TRUE]
    /\ ev' = <<>>
    /\ g' = [g EXCEPT !.call = "enable_rvc"]
    /\ UNCHANGED <<ram, tmr, state, phase>>

\* JALR t1, t0, 2 of the test, the guest's own attempts on misa, and fillers
JALR_T1_T0_2 == JALR(6, 5, 2)
MenuToggle ==
    {JALR_T1_T0_2, CSRRCI(0, CSR_MISA, 4), CSRRSI(0, CSR_MISA, 4), ADDI(0, 0, 0)}

InitToggle ==
    \E rvc \in BOOLEAN, timer \in BOOLEAN :
        Start([CPU_init(rvc) EXCEPT !.registers[5] = JUMP_BASE,
                                    !.csrs[CSR_MTVEC] = HOST_MTVEC],
              RAM_init("RAM"), timer)

NextToggle ==
    \/ \E inst \in MenuToggle : Execute(inst, MaxStepsToggle)
    \/ TimerUpdate
    \/ CommitPC
    \/ DisableRvc
    \/ EnableRvc

SpecToggle == InitToggle /\ [][NextToggle]_vars

\* C18: while misa.C is clear, JALR t1, t0, 2 traps with mcause 0 and
\* mtval = t0 + 2; while misa.C is set (again), the same JALR takes no trap
\* and t0 + 2 becomes the next pc.
C18_ToggleChangesAlignment ==
    [][(g'.call = "execute" /\ g'.inst = JALR_T1_T0_2) =>
          IF and32(cpu.csrs[CSR_MISA], MISA_C) = Zero
          THEN /\ ev' = <<TrapCall(Zero, add32(cpu.registers[5], w32(2)), TRUE, TRUE)>>
               /\ cpu'.csrs[CSR_MCAUSE] = Zero
               /\ cpu'.csrs[CSR_MTVAL] = add32(cpu.registers[5], w32(2))
          ELSE /\ ev' = <<>>
               /\ cpu'.next_pc = add32(cpu.registers[5], w32(2))]_vars

\* ---- CSR instructions on mstatus and mtvec ----------------------------------
MaxStepsCsr == 3

ALL_ONES == <<65535, 65535>>

\* t0 (x5) = T0_VALUE, t1 (x6) = 0, t2 (x7) = 0xFFFFFFFF
MenuCsr ==
    {CSRRW(0, CSR_MSTATUS, 6), CSRRS(6, CSR_MSTATUS, 5), CSRRC(0, CSR_MSTATUS, 7),
     CSRRWI(0, CSR_MSTATUS, 0), CSRRSI(0, CSR_MSTATUS, 8), CSRRCI(0, CSR_MSTATUS, 31),
     CSRRW(0, CSR_MTVEC, 5), CSRRS(0, CSR_MTVEC, 5), CSRRC(0, CSR_MTVEC, 7),
     CSRRWI(0, CSR_MTVEC, 3), CSRRSI(0, CSR_MTVEC, 1), CSRRCI(0, CSR_MTVEC, 4),
     INST_MRET, INST_ECALL, INST_EBREAK, ALL_ZERO}

InitCsr ==
    \E mtvec \in {Zero, HOST_MTVEC}, timer \in BOOLEAN :
        Start([CPU_init(FALSE) EXCEPT !.registers[5] = T0_VALUE,
                                      !.registers[7] = ALL_ONES,
                                      !.csrs[CSR_MTVEC] = mtvec],
              RAM_init("RAM"), timer)

NextCsr ==
    \/ \E inst \in MenuCsr : Execute(inst, MaxStepsCsr)
    \/ TimerUpdate
    \/ CommitPC
    \/ AssertExternalInterrupt

SpecCsr == InitCsr /\ [][NextCsr]_vars

\* mstatus[12:11]
mpp_of(c) == (c.csrs[CSR_MSTATUS][2] \div 2048) % 4

C20_MtvecLowBitsClear ==
    [][( /\ g'.call = "execute" /\ state'.running
         /\ csr_writes(cpu, g'.inst) /\ csr_of(g'.inst) = CSR_MTVEC ) =>
           cpu'.csrs[CSR_MTVEC][2] % 4 = 0]_vars

\* ---- write-ignored CSRs -----------------------------------------------------
MaxStepsNoWrite == 1

\* the six CSR forms on each write-ignored CSR: rd = t1 (x6) or x0, the
\* operand t0 (x5) = T0_VALUE, x0 = 0 or the immediate 5 / 0
MenuNoWrite ==
    {enc(csr, rs1, funct3, rd, 115) :
        csr \in CSR_NOWRITE, rs1 \in {0, 5}, funct3 \in {1, 2, 3, 5, 6, 7}, rd \in {0, 6}}

InitNoWrite ==
    \E rvc \in BOOLEAN, timer \in BOOLEAN :
        Start([CPU_init(rvc) EXCEPT !.registers[5] = T0_VALUE,
                                    !.registers[6] = ALL_ONES,
                                    !.csrs[CSR_MTVEC] = HOST_MTVEC],
              RAM_init("RAM"), timer)

NextNoWrite ==
    \/ \E inst \in MenuNoWrite : Execute(inst, MaxStepsNoWrite)
    \/ TimerUpdate
    \/ CommitPC

SpecNoWrite == InitNoWrite /\ [][NextNoWrite]_vars

\* C21: a CSR instruction of any form and with any operand on misa,
\* minstret, minstreth, tselect, tdata1 or tdata2 leaves the stored value of
\* the CSR as it was, takes no trap, and puts the stored value in rd when rd
\* is not x0.
C21_WriteIgnored ==
    [][( /\ g'.call = "execute"
         /\ is_csr_op(g'.inst) /\ csr_of(g'.inst) \in CSR_NOWRITE ) =>
           /\ cpu'.csrs[csr_of(g'.inst)] = cpu.csrs[csr_of(g'.inst)]
           /\ ev' = <<>> /\ state'.running
           /\ rd_of(g'.inst) # 0 =>
                 cpu'.registers[rd_of(g'.inst)] = cpu.csrs[csr_of(g'.inst)]
           /\ \A r \in 0..31 : r # rd_of(g'.inst) =>
                 cpu'.registers[r] = cpu.registers[r]]_vars

\* C21 happens: CSRRW t1, misa, t0 has read misa into t1 and left misa alone
C21_Witness ==
    /\ g.call = "execute" /\ g.inst = CSRRW(6, CSR_MISA, 5)
    /\ cpu.registers[6] = cpu.csrs[CSR_MISA]
    /\ cpu.csrs[CSR_MISA] # T0_VALUE
    /\ cpu.csrs[CSR_MISA][1] = 16384

\* ---- the decode cache -------------------------------------------------------
MaxStepsDecode == 3

\* the word that differs from inst in its two low bits only
with_low_bits(inst, low) == <<inst[1], inst[2] - (inst[2] % 4) + low>>

\* ADDI t1, x0, 1 and SW t0, 0(x0), and the words that share their inst >> 2
MenuDecode ==
    {with_low_bits(inst, low) : inst \in {ADDI(6, 0, 1), SW(5, 0, 0)}, low \in 0..3}

InitDecode ==
    \E rvc \in BOOLEAN, timer \in BOOLEAN :
        Start([CPU_init(rvc) EXCEPT !.registers[5] = T0_VALUE,
                                    !.csrs[CSR_MTVEC] = HOST_MTVEC],
              RAM_init("RAM"), timer)

NextDecode ==
    \/ \E inst \in MenuDecode : Execute(inst, MaxStepsDecode)
    \/ TimerUpdate
    \/ CommitPC

SpecDecode == InitDecode /\ [][NextDecode]_vars

\* the step ran execute_32 on the fetched word
ran_execute_32 ==
    g'.call = "execute" /\ (~cpu.rvc_enabled \/ g'.inst[2] % 4 = 3)

\* C22: the fields (opcode, rd, funct3, rs1, rs2, funct7) execute_32 uses for
\* a value v, which are the ones found in the cache under v's key afterwards,
\* are the fields of v decoded directly, whatever was executed before, values
\* that differ from v in their two low bits included.
C22_DecodeCoherent ==
    [][ran_execute_32 =>
          cpu'.decode_cache[shr32(g'.inst, 2)] = decode(g'.inst)]_vars

\* ---- instruction fetch at the end of memory ---------------------------------
MaxStepsFetch == 2

\* run_unit_tests.py: SafeRAMOffset(..., base_addr=0x8000_0000)
UNIT_TEST_BASE == <<32768, 0>>

\* the four bytes at 4..7 of the 8-byte RAM:
\*   C.NOP at 4, C.LI a0, 7 (0x451D) at 6
\*   ADDI a0, a0, 1 (0x00150513) at 4
\*   C.NOP at 4, the low parcel of ADDI a0, a0, 1 at 6
PROG_C_LI == <<1, 0, 29, 69>>
PROG_ADDI == <<19, 5, 21, 0>>
PROG_LOW_PARCEL == <<1, 0, 19, 5>>
Programs == {PROG_C_LI, PROG_ADDI, PROG_LOW_PARCEL}

\* the RAM of the given variant with the sentinel in tohost (bytes 0..3) and
\* the program in bytes 4..7
RAM_program(kind, prog) ==
    [RAM_init(kind) EXCEPT
        !.base_addr = IF kind = "SafeRAMOffset" THEN UNIT_TEST_BASE ELSE Zero,
        !.memory = [i \in DOMAIN @ |->
                       IF i < 4 THEN 255 ELSE IF i < 8 THEN prog[i - 3] ELSE 0]]

\* the step loops: run_chunk (phase "execute") and run_unit_tests.py
InitFetch ==
    \E rvc \in BOOLEAN, timer \in BOOLEAN, prog \in Programs, start \in {4, 6},
       kind \in {"RAM", "SafeRAM", "SafeRAMOffset"}, loop \in {"execute", "unit_test"} :
        /\ cpu = [CPU_init(rvc) EXCEPT
                     !.pc = add32(RAM_program(kind, prog).base_addr, w32(start))]
        /\ ram = RAM_program(kind, prog)
        /\ tmr = MMIOTimer_init
        /\ state = EmulatorState(timer)
        /\ phase = loop
        /\ ev = <<>>
        /\ g = G_init

NextFetch ==
    \/ FetchExecute(MaxStepsFetch)
    \/ UnitTestStep(MaxStepsFetch)
    \/ TimerUpdate
    \/ CommitPC

SpecFetch == InitFetch /\ [][NextFetch]_vars

\* the parcel at pc starts a 32-bit instruction
parcel_is_32 == ram.memory[mem_index(ram, cpu.pc)] % 4 = 3

\* pc is the last 2-byte slot of a bounds-checked memory
at_last_slot ==
    /\ ram.kind \in SAFE_KINDS
    /\ check(ram, cpu.pc, 2) /\ ~check(ram, cpu.pc, 4)

\* the step fetched an instruction for a hart that has the compressed
\* extension
fetch_step ==
    /\ g'.call \in {"fetch", "execute", "unit_test"} /\ g'.fetched > 0
    /\ cpu.rvc_enabled

\* C23: every step loop fetches the 16-bit parcel at pc first and reads the
\* bytes at pc + 2 .. pc + 3 only when the two low bits of the parcel are 11:
\* a compressed instruction in the last 2-byte slot of a bounds-checked memory
\* is fetched without a memory error, a 32-bit instruction that starts there
\* gets a memory error at the fetch of its upper parcel.
C23_ParcelFetch ==
    [][(fetch_step /\ check(ram, cpu.pc, 2)) =>
          /\ g'.fetched = 4 => parcel_is_32
          /\ (at_last_slot /\ ~parcel_is_32) =>
                g'.call # "fetch" /\ state'.exit_info # "MemoryAccessError"
          /\ (at_last_slot /\ parcel_is_32) =>
                /\ g'.call = "fetch" /\ g'.fetched = 4
                /\ ~state'.running /\ state'.exit_info = "MemoryAccessError"]_vars

\* C24: with C.LI a0, 7 (0x451D) at address 6 of the 8-byte RAM and pc = 6,
\* one step that fetches by parcels and runs cpu.execute leaves a0 = 7 and
\* pc = 8.
C24_CompressedAtBoundary ==
    [][( /\ phase = "unit_test"
         /\ mem_index(ram, cpu.pc) = 6 /\ check(ram, cpu.pc, 2)
         /\ ram.memory[6] = 29 /\ ram.memory[7] = 69 ) =>
           /\ cpu'.registers[10] = w32(7)
           /\ cpu'.pc = add32(cpu.pc, w32(2))]_vars

\* ---- compressed jumps and branches (rvc.py, quadrant 1) --------------------
MaxStepsCJump == 2

\* the pc the compressed jumps are executed at
CJUMP_BASE == w32(4096)

\* the offset field of the CJ format (C.J, C.JAL), sign-extended:
\* imm[11|4|9:8|10|6|7|3:1|5] in bits 12..2
cj_offset(c) ==
    LET raw == bits(c, 12, 1) * 2048 + bits(c, 8, 1) * 1024 + bits(c, 9, 2) * 256
               + bits(c, 6, 1) * 128 + bits(c, 7, 1) * 64 + bits(c, 2, 1) * 32
               + bits(c, 11, 1) * 16 + bits(c, 3, 3) * 2
    IN IF raw >= 2048 THEN raw - 4096 ELSE raw

\* the offset field of the CB format (C.BEQZ, C.BNEZ), sign-extended:
\* imm[8|4:3] in bits 12..10, imm[7:6|2:1|5] in bits 6..2
cb_offset(c) ==
    LET raw == bits(c, 12, 1) * 256 + bits(c, 5, 2) * 64 + bits(c, 2, 1) * 32
               + bits(c, 10, 2) * 8 + bits(c, 3, 2) * 2
    IN IF raw >= 256 THEN raw - 512 ELSE raw

\* quadrant-1 halfwords with funct3 = 1 (C.JAL), 5 (C.J), 6 (C.BEQZ) and
\* 7 (C.BNEZ): bit 12 is the sign of the offset, body is bits 11..2
MenuCJump ==
    {<<0, funct3 * 8192 + sign * 4096 + body * 4 + 1>> :
        funct3 \in {1, 5, 6, 7}, sign \in {0, 1}, body \in {1, 2, 8, 1023}}

InitCJump ==
    \E timer \in BOOLEAN, s0 \in {Zero, w32(1)}, a5 \in {Zero, w32(1)} :
        Start([CPU_init(TRUE) EXCEPT !.pc = CJUMP_BASE,
                                     !.next_pc = CJUMP_BASE,
                                     !.registers[8] = s0,
                                     !.registers[15] = a5,
                                     !.csrs[CSR_MTVEC] = HOST_MTVEC],
              RAM_init("RAM"), timer)

NextCJump ==
    \/ \E inst \in MenuCJump : Execute(inst, MaxStepsCJump)
    \/ TimerUpdate
    \/ CommitPC

SpecCJump == InitCJump /\ [][NextCJump]_vars

\* the halfword c is C.J or C.JAL
is_cj(c) == c % 4 = 1 /\ c \div 8192 \in {1, 5}

\* the halfword c is a C.BEQZ or C.BNEZ that is taken in c0
is_cb_taken(c0, c) ==
    /\ c % 4 = 1
    /\ \/ c \div 8192 = 6 /\ c0.registers[bits(c, 7, 3) + 8] = Zero
       \/ c \div 8192 = 7 /\ c0.registers[bits(c, 7, 3) + 8] # Zero

\* C25: executing a C.J or C.JAL, or a taken C.BEQZ or C.BNEZ, whose
\* sign-extended offset is o (negative offsets included) sets
\* next_pc = (pc + o) mod 2^32.
C25_CompressedJumpTarget ==
    [][( g'.call = "execute" /\ cpu.rvc_enabled /\ g'.inst[1] = 0 ) =>
          /\ is_cj(g'.inst[2]) =>
                cpu'.next_pc = add32(cpu.pc, sx32(cj_offset(g'.inst[2])))
          /\ is_cb_taken(cpu, g'.inst[2]) =>
                cpu'.next_pc = add32(cpu.pc, sx32(cb_offset(g'.inst[2])))]_vars

\* the branch half of C25: a taken C.BEQZ / C.BNEZ sets next_pc = pc + o
C25_BranchTarget ==
    [][( /\ g'.call = "execute" /\ cpu.rvc_enabled /\ g'.inst[1] = 0
         /\ is_cb_taken(cpu, g'.inst[2]) ) =>
            cpu'.next_pc = add32(cpu.pc, sx32(cb_offset(g'.inst[2])))]_vars

\* the forward half of C25: a C.J / C.JAL with offset >= 0 sets next_pc = pc + o
C25_ForwardJumpTarget ==
    [][( /\ g'.call = "execute" /\ cpu.rvc_enabled /\ g'.inst[1] = 0
         /\ is_cj(g'.inst[2]) /\ cj_offset(g'.inst[2]) >= 0 ) =>
            cpu'.next_pc = add32(cpu.pc, sx32(cj_offset(g'.inst[2])))]_vars

\* ---- ECALL with a Python handler (cpu.py 303-310, 705-706) -----------------
MaxStepsEcall == 3

\* ECALL, the guest installing and removing its trap handler, and the guest
\* setting and clearing mstatus.MIE
MenuEcall ==
    {INST_ECALL, CSRRW(0, CSR_MTVEC, 5), CSRRW(0, CSR_MTVEC, 0),
     CSRRSI(0, CSR_MSTATUS, 8), CSRRCI(0, CSR_MSTATUS, 8), ADDI(6, 6, 1)}

\* CPU.__init__ followed by cpu.set_ecall_handler(handler) of the host
\* (riscv-emu.py:185, browser_entry.py:148), or by no such call
InitEcall ==
    \E rvc \in BOOLEAN, timer \in BOOLEAN,
       handler \in {"None", "handler_returns", "handler_exits"} :
        Start([CPU_init(rvc) EXCEPT !.registers[5] = HOST_MTVEC,
                                    !.handle_ecall = handler],
              RAM_init("RAM"), timer)

NextEcall ==
    \/ \E inst \in MenuEcall : Execute(inst, MaxStepsEcall)
    \/ TimerUpdate
    \/ CommitPC

SpecEcall == InitEcall /\ [][NextEcall]_vars

\* the calls of the ecall handler logged in a sequence of calls
handler_calls(log) == {i \in DOMAIN log : log[i] = HandlerCall}

\* the step is cpu.execute of an ECALL
ran_ecall == g'.call = "execute" /\ g'.inst = INST_ECALL

C26_WitnessTrap ==
    /\ g.call = "execute" /\ g.inst = INST_ECALL
    /\ cpu.handle_ecall # "None"
    /\ ev = <<TrapCall(w32(11), Zero, TRUE, TRUE)>>
    /\ cpu.next_pc = HOST_MTVEC

\* ---- EBREAK as an in-band logging call (cpu.py 326-348) --------------------
MaxStepsEbreak == 3

\* C.EBREAK
C_EBREAK == <<0, 36866>>

\* EBREAK, C.EBREAK, a store of a NUL at address 2 and an LR.W that leaves
\* a reservation
MenuEbreak == {INST_EBREAK, C_EBREAK, SB(0, 2, 0), LR_W(6, 0)}

\* CPU.__init__ with or without a logger; a7 selects the call, a0 is the
\* address of its string
InitEbreak ==
    \E rvc \in BOOLEAN, timer \in BOOLEAN, logger \in {"None", "logger"},
       call \in {0, 1, 2, 3, 4, 5, B16 - 1}, a0 \in {Zero, w32(RamSize)} :
        Start([CPU_init(rvc) EXCEPT !.registers[17] = <<B16 - 1, call>>,
                                    !.registers[10] = a0,
                                    !.registers[11] = T0_VALUE,
                                    !.logger = logger,
                                    !.csrs[CSR_MTVEC] = HOST_MTVEC],
              RAM_init("RAM"), timer)

NextEbreak ==
    \/ \E inst \in MenuEbreak : Execute(inst, MaxStepsEbreak)
    \/ TimerUpdate
    \/ CommitPC

SpecEbreak == InitEbreak /\ [][NextEbreak]_vars

\* the step is cpu.execute of an EBREAK (or C.EBREAK) with a7 >= 0xFFFF0000
ran_debug_call ==
    /\ g'.call = "execute"
    /\ effective(cpu, g'.inst) = INST_EBREAK
    /\ is_debug_call(cpu.registers[17])

\* C27: an EBREAK with a7 >= 0xFFFF0000 never traps and never terminates
\* execution, for every a0 and a1 and with or without a logger; it changes
\* no register, CSR, memory byte or reservation and execution continues at
\* the following instruction.
C27_DebugCallHarmless ==
    [][ran_debug_call =>
        /\ ev' = <<>>
        /\ state'.running
        /\ cpu'.registers = cpu.registers
        /\ cpu'.csrs = cpu.csrs
        /\ ram' = ram
        /\ cpu'.reservation_valid = cpu.reservation_valid
        /\ cpu'.reservation_addr = cpu.reservation_addr
        /\ cpu'.next_pc = add32(cpu.pc, w32(cpu'.inst_size))]_vars

\* C27 without a logger, or with a call that reads no string
C27_WithoutString ==
    [][(ran_debug_call /\ (cpu.logger = "None" \/ cpu.registers[17] \notin LOG_STR_CALLS)) =>
        /\ ev' = <<>>
        /\ state'.running
        /\ cpu'.registers = cpu.registers
        /\ cpu'.csrs = cpu.csrs
        /\ ram' = ram
        /\ cpu'.reservation_valid = cpu.reservation_valid
        /\ cpu'.reservation_addr = cpu.reservation_addr
        /\ cpu'.next_pc = add32(cpu.pc, w32(cpu'.inst_size))]_vars

\* ---- accesses past the end of the memory (ram.py) --------------------------
MaxStepsMem == 1

\* the five memory classes of ram.py
RAM_KINDS == {"RAM", "RAM_MMIO", "SafeRAM", "SafeRAMOffset", "SafeRAM_MMIO"}

\* offsets from RamSize - 4: inside, across the end, in the padding, across
\* the end of the padding, past the padding
MEM_OFFSETS == {0, 3, 4, 7, 8}

\* LB, LH, LW, LBU, LHU t1, imm(t0) and SB, SH, SW t2, imm(t0)
MenuMem ==
    {enc(imm, 5, funct3, 6, 3) : imm \in MEM_OFFSETS, funct3 \in {0, 1, 2, 4, 5}}
    \cup {enc(7, 5, funct3, imm, 35) : imm \in MEM_OFFSETS, funct3 \in {0, 1, 2}}

\* a memory of each class (SafeRAMOffset at the base of run_unit_tests.py),
\* t0 = the address of its last word
InitMem ==
    \E rvc \in BOOLEAN, timer \in BOOLEAN, kind \in RAM_KINDS :
        Start([CPU_init(rvc) EXCEPT
                   !.registers[5] = add32(RAM_program(kind, PROG_ADDI).base_addr,
                                          w32(RamSize - 4)),
                   !.registers[7] = T0_VALUE,
                   !.csrs[CSR_MTVEC] = HOST_MTVEC],
              RAM_program(kind, PROG_ADDI), timer)

NextMem ==
    \/ \E inst \in MenuMem : Execute(inst, MaxStepsMem)
    \/ TimerUpdate
    \/ CommitPC

SpecMem == InitMem /\ [][NextMem]_vars

\* the instruction is a load or a store of 1, 2 or 4 bytes
is_load(inst) == opcode_of(inst) = 3 /\ funct3_of(inst) \in {0, 1, 2, 4, 5}
access_size(inst) == 2 ^ (funct3_of(inst) % 4)

\* the address of the access, as the memory class sees it (relative to
\* base_addr in SafeRAMOffset)
access_index(c, r, inst) ==
    mem_index(r, IF is_load(inst)
                 THEN add32(c.registers[rs1_of(inst)], sx32(imm_i_of(inst)))
                 ELSE store_addr(c, inst))

\* the step is a load or a store that reaches past the end of the memory
ran_past_end ==
    /\ g'.call = "execute"
    /\ is_load(g'.inst) \/ is_store(g'.inst)
    /\ access_index(cpu, ram, g'.inst) + access_size(g'.inst) > ram.size

\* C28: in each of the five memory classes a byte, half or word load or
\* store of n bytes at addr with addr + n > size (outside MMIO) raises
\* MemoryAccessError.
C28_PastEndRaises ==
    [][ran_past_end =>
          ~state'.running /\ state'.exit_info = "MemoryAccessError"]_vars

\* C28 for the three bounds-checked classes
C28_SafePastEndRaises ==
    [][(ran_past_end /\ ram.kind \in SAFE_KINDS) =>
          /\ ~state'.running /\ state'.exit_info = "MemoryAccessError"
          /\ ram' = ram /\ cpu'.registers = cpu.registers]_vars

\* ---- MMIO dispatch (ram.py, RAM_MMIO and SafeRAM_MMIO) ---------------------
MaxStepsMmio == 1

\* a PtyUART over the last 8 bytes of the RAM
UART_IN_RAM == w32(RamSize - 8)

\* the lists register_peripheral can have built: nothing, the timer, a
\* UART, a UART over RAM addresses, and timer and UART on the same
\* addresses in both orders
RangeLists ==
    {<<>>, <<TimerRange>>, <<UartRange(UART_IN_RAM)>>,
     <<TimerRange, UartRange(REG_BASE)>>, <<UartRange(REG_BASE), TimerRange>>,
     <<UartRange(UART_IN_RAM), UartRange(w32(RamSize - 4))>>}

\* LW / SW / LB / SB / LH / SH through t0 (a RAM address or the timer's base)
MenuMmio ==
    {enc(imm, 5, funct3, 6, 3) : imm \in {0, 4, 8}, funct3 \in {0, 1, 2}}
    \cup {enc(7, 5, funct3, imm, 35) : imm \in {0, 4, 8}, funct3 \in {0, 1, 2}}

InitMmio ==
    \E rvc \in BOOLEAN, timer \in BOOLEAN, kind \in MMIO_KINDS,
       ranges \in RangeLists, t0 \in {w32(RamSize - 8), REG_BASE} :
        Start([CPU_init(rvc) EXCEPT !.registers[5] = t0,
                                    !.registers[7] = T0_VALUE,
                                    !.csrs[CSR_MTVEC] = HOST_MTVEC],
              [RAM_init(kind) EXCEPT !.mmio_ranges = ranges], timer)

NextMmio ==
    \/ \E inst \in MenuMmio : Execute(inst, MaxStepsMmio)
    \/ TimerUpdate
    \/ CommitPC

SpecMmio == InitMmio /\ [][NextMmio]_vars

\* the step is a word load / a word store
ran_load_word == g'.call = "execute" /\ is_load(g'.inst) /\ funct3_of(g'.inst) = 2
ran_store_word == g'.call = "execute" /\ is_store(g'.inst) /\ funct3_of(g'.inst) = 2

\* the address of the load or store
access_addr(c, inst) ==
    IF is_load(inst) THEN add32(c.registers[rs1_of(inst)], sx32(imm_i_of(inst)))
    ELSE store_addr(c, inst)

\* entry i of the list is the first one whose range holds addr
first_match(r, i, addr) ==
    /\ i \in DOMAIN r.mmio_ranges
    /\ in_range(r.mmio_ranges[i], addr)
    /\ \A j \in 1..(i - 1) : ~in_range(r.mmio_ranges[j], addr)

\* C29: in the MMIO classes load_word / store_word at addr call read32 /
\* write32 of a registered peripheral exactly when base <= addr < end for
\* it (the first registered one when several ranges hold addr), and then
\* the backing RAM is neither read nor written; a word access outside every
\* registered range calls no peripheral.
C29_MmioDispatch ==
    [][(ran_load_word \/ ran_store_word) =>
        /\ \A i \in DOMAIN ram.mmio_ranges :
              first_match(ram, i, access_addr(cpu, g'.inst)) =>
                 /\ g'.io = <<PeripheralCall(ram.mmio_ranges[i],
                                             IF ran_load_word THEN "read32" ELSE "write32",
                                             access_addr(cpu, g'.inst))>>
                 /\ ram' = ram
                 /\ (ran_load_word /\ state'.running) =>
                       cpu'.registers[rd_of(g'.inst)]
                           = mmio_read32(Emu, ram.mmio_ranges[i],
                                         access_addr(cpu, g'.inst)).val
        /\ (\A i \in DOMAIN ram.mmio_ranges :
               ~in_range(ram.mmio_ranges[i], access_addr(cpu, g'.inst))) =>
                 g'.io = <<>>]_vars

\* byte and half accesses never reach a peripheral
C29_NarrowAccessBypasses ==
    [][(/\ g'.call = "execute" /\ (is_load(g'.inst) \/ is_store(g'.inst))
        /\ funct3_of(g'.inst) \in {0, 1, 4, 5}) => g'.io = <<>>]_vars

\* C29 happens: a word store to an address that is a RAM address and also in
\* the range of the first of two registered UARTs went to that UART and left
\* the RAM as it was
C29_Witness ==
    /\ g.call = "execute" /\ is_store(g.inst) /\ funct3_of(g.inst) = 2
    /\ Len(ram.mmio_ranges) = 2
    /\ g.io = <<PeripheralCall(UartRange(UART_IN_RAM), "write32", w32(RamSize - 4))>>
    /\ ram.memory[RamSize - 4] = FillByte

\* C29 happens: with timer and UART registered on the same addresses, UART
\* first, the word load at the shared base returned the UART's TX status
C29_WitnessOverlap ==
    /\ g.call = "execute" /\ is_load(g.inst) /\ funct3_of(g.inst) = 2
    /\ ram.mmio_ranges = <<UartRange(REG_BASE), TimerRange>>
    /\ g.io = <<PeripheralCall(UartRange(REG_BASE), "read32", REG_BASE)>>
    /\ state.running

\* ---- AMOADD.W (cpu.py 484-489) ---------------------------------------------
MaxStepsAmo == 2

AMOADD_W(rd, rs2, rs1) == enc(rs2, rs1, 2, rd, 47)

\* AMOADD.W with rd, rs2 and rs1 distinct, rd = rs2, rd = rs1, all three the
\* same and rd = x0; ADDI t0, x0, 4 points t0 back into the memory
MenuAmo ==
    {AMOADD_W(6, 7, 5), AMOADD_W(7, 7, 5), AMOADD_W(5, 7, 5), AMOADD_W(5, 5, 5),
     AMOADD_W(0, 7, 5), LR_W(28, 5), ADDI(5, 0, 4)}

InitAmo ==
    \E rvc \in BOOLEAN, timer \in BOOLEAN, kind \in {"RAM", "SafeRAM"},
       t0 \in {Zero, w32(4)}, t2 \in {T0_VALUE, ALL_ONES} :
        Start([CPU_init(rvc) EXCEPT !.registers[5] = t0,
                                    !.registers[7] = t2,
                                    !.csrs[CSR_MTVEC] = HOST_MTVEC],
              RAM_init(kind), timer)

NextAmo ==
    \/ \E inst \in MenuAmo : Execute(inst, MaxStepsAmo)
    \/ TimerUpdate
    \/ CommitPC

SpecAmo == InitAmo /\ [][NextAmo]_vars

\* the step is an AMOADD.W at an aligned address inside the memory
ran_amoadd ==
    /\ g'.call = "execute"
    /\ is_amo_w(g'.inst) /\ g'.inst[1] \div 2048 = 0
    /\ cpu.registers[rs1_of(g'.inst)][1] = 0
    /\ cpu.registers[rs1_of(g'.inst)][2] % 4 = 0
    /\ cpu.registers[rs1_of(g'.inst)][2] + 4 <= ram.size

\* C30: AMOADD.W rd, rs2, (rs1) at an aligned address leaves
\* MEM[addr] = (old + v) mod 2^32, with old the word at addr and v the value
\* of rs2 before the instruction, and rd = old; also when rd is the same
\* register as rs2 or as rs1 (x0 as rd stays 0).
C30_AmoAdd ==
    [][ran_amoadd =>
        /\ state'.running /\ ev' = <<>>
        /\ word_at(ram', cpu.registers[rs1_of(g'.inst)][2])
               = add32(word_at(ram, cpu.registers[rs1_of(g'.inst)][2]),
                       cpu.registers[rs2_of(g'.inst)])
        /\ cpu'.registers[rd_of(g'.inst)]
               = IF rd_of(g'.inst) = 0 THEN Zero
                 ELSE word_at(ram, cpu.registers[rs1_of(g'.inst)][2])]_vars

\* C30 happens: AMOADD.W t2, t2, (t0) has run with t2 = 0xFFFFFFFF: the sum
\* wrapped to old - 1 and t2 holds the old word
C30_Witness ==
    /\ g.call = "execute" /\ g.inst = AMOADD_W(7, 7, 5)
    /\ state.running
    /\ cpu.registers[7] = <<FillByte * 257, FillByte * 257>>
    /\ word_at(ram, cpu.registers[5][2]) = <<FillByte * 257, FillByte * 257 - 1>>

\* C30 happens: AMOADD.W t0, t2, (t0) has run: t0, the address register,
\* holds the old word
C30_WitnessRs1 ==
    /\ g.call = "execute" /\ g.inst = AMOADD_W(5, 7, 5)
    /\ state.running
    /\ cpu.registers[5] = <<FillByte * 257, FillByte * 257>>

\* ---- division corner cases (cpu.py 83-155) ---------------------------------
MaxStepsDiv == 1

\* the M-extension instruction with the given funct3 (funct7 = 1)
MULDIV(funct3, rd, rs1, rs2) == enc(32 + rs2, rs1, funct3, rd, 51)
INST_DIV == MULDIV(4, 5, 6, 7)
INST_DIVU == MULDIV(5, 5, 6, 7)
INST_REM == MULDIV(6, 5, 6, 7)
INST_REMU == MULDIV(7, 5, 6, 7)

\* MUL .. REMU x5, x6, x7
MenuDiv == {MULDIV(funct3, 5, 6, 7) : funct3 \in 0..7}

\* dividends and divisors: 0, 1, 2, 7, -7, -2, -1, MIN_INT, MAX_INT and a
\* value with all four bytes in use
DivOperands ==
    {Zero, w32(1), w32(2), w32(7), <<B16 - 1, B16 - 7>>, <<B16 - 1, B16 - 2>>,
     MINUS_ONE, MIN_INT, <<32767, B16 - 1>>, <<4660, 22136>>}

InitDiv ==
    \E rvc \in BOOLEAN, timer \in BOOLEAN, a \in DivOperands, b \in DivOperands :
        Start([CPU_init(rvc) EXCEPT !.registers[6] = a,
                                    !.registers[7] = b,
                                    !.csrs[CSR_MTVEC] = HOST_MTVEC],
              RAM_init("RAM"), timer)

NextDiv ==
    \/ \E inst \in MenuDiv : Execute(inst, MaxStepsDiv)
    \/ TimerUpdate
    \/ CommitPC

SpecDiv == InitDiv /\ [][NextDiv]_vars

\* q is the quotient of a by b rounded toward zero: the rest a - q * b is
\* smaller than b in magnitude and is zero or has the sign of a
is_trunc_quotient(a, b, q) ==
    /\ ltu32(abs32(sub32(a, mul32(q, b))), abs32(b))
    /\ \/ sub32(a, mul32(q, b)) = Zero
       \/ is_neg32(sub32(a, mul32(q, b))) = is_neg32(a)

\* the overflow corner of the signed division
div_overflows(a, b) == a = MIN_INT /\ b = MINUS_ONE

\* C31: DIV and DIVU by 0 give 0xFFFFFFFF, REM and REMU by 0 give the
\* dividend; DIV of 0x80000000 by 0xFFFFFFFF gives 0x80000000 and REM gives
\* 0; in every other case DIV truncates toward zero (DIVU rounds down) and
\* dividend = quotient * divisor + remainder (mod 2^32), the quotient being
\* what DIV (DIVU) gives for the same operands.
C31_Division ==
    [][g'.call = "execute" =>
        /\ g'.inst = INST_DIV =>
              cpu'.registers[5] =
                  IF cpu.registers[7] = Zero THEN MINUS_ONE
                  ELSE IF div_overflows(cpu.registers[6], cpu.registers[7]) THEN MIN_INT
                  ELSE cpu'.registers[5]
        /\ (/\ g'.inst = INST_DIV /\ cpu.registers[7] # Zero
            /\ ~div_overflows(cpu.registers[6], cpu.registers[7])) =>
              is_trunc_quotient(cpu.registers[6], cpu.registers[7], cpu'.registers[5])
        /\ g'.inst = INST_DIVU =>
              IF cpu.registers[7] = Zero THEN cpu'.registers[5] = MINUS_ONE
              ELSE ltu32(sub32(cpu.registers[6],
                               mul32(cpu'.registers[5], cpu.registers[7])),
                         cpu.registers[7])
                   /\ geu32(cpu.registers[6], mul32(cpu'.registers[5], cpu.registers[7]))
                   /\ mulhu32(cpu'.registers[5], cpu.registers[7]) = Zero
        /\ g'.inst = INST_REM =>
              cpu'.registers[5] =
                  IF cpu.registers[7] = Zero THEN cpu.registers[6]
                  ELSE IF div_overflows(cpu.registers[6], cpu.registers[7]) THEN Zero
                  ELSE sub32(cpu.registers[6],
                             mul32(exec_DIV(cpu.registers[6], cpu.registers[7]),
                                   cpu.registers[7]))
        /\ g'.inst = INST_REMU =>
              cpu'.registers[5] =
                  IF cpu.registers[7] = Zero THEN cpu.registers[6]
                  ELSE sub32(cpu.registers[6],
                             mul32(exec_DIVU(cpu.registers[6], cpu.registers[7]),
                                   cpu.registers[7]))
        /\ g'.inst \in {INST_DIV, INST_DIVU, INST_REM, INST_REMU} =>
              state'.running /\ ev' = <<>>]_vars

\* C31 happens: DIV of -7 by 2 has given -3
C31_Witness ==
    /\ g.call = "execute" /\ g.inst = INST_DIV
    /\ cpu.registers[6] = <<B16 - 1, B16 - 7>> /\ cpu.registers[7] = w32(2)
    /\ cpu.registers[5] = <<B16 - 1, B16 - 3>>

\* C31 happens: DIV of 0x80000000 by 0xFFFFFFFF has given 0x80000000
C31_WitnessOverflow ==
    /\ g.call = "execute" /\ g.inst = INST_DIV
    /\ div_overflows(cpu.registers[6], cpu.registers[7])
    /\ cpu.registers[5] = MIN_INT

\* C31 happens: REM of -7 by 0 has given -7
C31_WitnessByZero ==
    /\ g.call = "execute" /\ g.inst = INST_REM
    /\ cpu.registers[6] = <<B16 - 1, B16 - 7>> /\ cpu.registers[7] = Zero
    /\ cpu.registers[5] = <<B16 - 1, B16 - 7>>

\* ---- the sum program of tests/test_api1.py ----------------------------------
\* RAM(1024): the size of the RAM the script builds
SUM_RAM_SIZE == 1024

\* the seven words the script stores from address 0: li t0, 0; li t1, 1;
\* li t2, 100; loop: add t0, t0, t1; addi t1, t1, 1; bge t2, t1, loop; ebreak
SUM_PROGRAM ==
    << <<0, 659>>, <<16, 787>>, <<1600, 915>>, <<98, 33459>>,
       <<19, 787>>, <<65123, 56547>>, <<16, 115>> >>

\* the address the script stops at, and the result it prints
SUM_END == w32(24)
SUM_RESULT == w32(5050)

\* ram = RAM(1024), zero filled
SumRam ==
    [kind |-> "RAM", size |-> SUM_RAM_SIZE, base_addr |-> Zero, mmio_ranges |-> <<>>,
     memory |-> [i \in 0..(SUM_RAM_SIZE + PADDING - 1) |-> 0]]

\* the RAM after the first n ram.store_word calls of the script
RECURSIVE SumLoaded(_)
SumLoaded(n) ==
    IF n = 0
    THEN [cpu |-> CPU_init(FALSE), ram |-> SumRam, tmr |-> MMIOTimer_init,
          exc |-> "none", ev |-> <<>>, io |-> <<>>]
    ELSE store_word(SumLoaded(n - 1), w32(4 * (n - 1)), SUM_PROGRAM[n])

\* the script up to its loop: cpu = CPU(ram), the seven stores, cpu.pc = 0
InitSum ==
    /\ cpu = [CPU_init(FALSE) EXCEPT !.pc = Zero]
    /\ ram = SumLoaded(Len(SUM_PROGRAM)).ram
    /\ tmr = MMIOTimer_init
    /\ state = EmulatorState(FALSE)
    /\ phase = "api_loop"
    /\ ev = <<>>
    /\ g = G_init

\* the end of an iteration that left the emulator as m: cpu.pc = cpu.next_pc
\* and the break at pc == 0x18; an exception ends the script
SumLooped(m, inst) ==
    /\ ram' = m.ram /\ tmr' = m.tmr /\ ev' = m.ev
    /\ cpu' = IF m.exc = "none" THEN [m.cpu EXCEPT !.pc = m.cpu.next_pc] ELSE m.cpu
    /\ state' = IF m.exc # "none" THEN after_call(m)
                ELSE [state EXCEPT !.running = (m.cpu.next_pc # SUM_END)]
    /\ g' = [executed_g(m, inst, effective(cpu, inst)) EXCEPT !.fetched = 4]
    /\ UNCHANGED phase

\* one iteration of the while True loop: inst = ram.load_word(cpu.pc),
\* cpu.execute(inst), cpu.pc = cpu.next_pc, the test of pc
SumStep ==
    /\ state.running /\ phase = "api_loop"
    /\ IF load_word(Emu, cpu.pc).exc # "none"
       THEN FetchFailed(load_word(Emu, cpu.pc).exc, 4)
       ELSE SumLooped(execute(Emu, load_word(Emu, cpu.pc).val), load_word(Emu, cpu.pc).val)

NextSum == SumStep

\* the loop of the script runs on as long as it has not left through break
SpecSum == InitSum /\ [][NextSum]_vars /\ WF_vars(SumStep)

\* the script has left its loop through the break at pc == 0x18
sum_stopped == phase = "api_loop" /\ ~state.running /\ cpu.pc = SUM_END

\* C32: from pc = 0 the loop of fetch, execute and pc <- next_pc over the
\* seven-instruction sum program reaches pc = 0x18 after finitely many steps,
\* the loop ends in no other way, and x5 holds 5050 when it has stopped
C32_SumReaches5050 ==
    /\ <>sum_stopped
    /\ [](phase = "api_loop" /\ ~state.running => sum_stopped)
    /\ [](sum_stopped => cpu.registers[5] = SUM_RESULT)

\* the script stopped at 0x18 with 5050 in x5, 100 in x7 and 101 in x6
C32_Witness ==
    /\ sum_stopped
    /\ cpu.registers[5] = SUM_RESULT
    /\ cpu.registers[6] = w32(101) /\ cpu.registers[7] = w32(100)
    /\ g.call = "execute" /\ g.inst = SUM_PROGRAM[6]

\* ---- _sbrk ------------------------------------------------------------------
MaxStepsSbrk == 4

\* heap_end and stack_bottom as load_elf finds them in the symbols of the
\* program: a heap of 64 bytes, one that ends 16 bytes below the top of the
\* address space, and a program without the two symbols
SbrkLayouts ==
    { [heap_end |-> w32(4096), stack_bottom |-> w32(4160), stack_top |-> w32(8192)],
      [heap_end |-> <<B16 - 1, B16 - 32>>, stack_bottom |-> <<B16 - 1, B16 - 16>>,
       stack_top |-> <<B16 - 1, B16 - 4>>],
      Machine_init }

\* ecall, and the instructions that set the increment (16, 48, -16) or the
\* number of the system call (_exit, an unknown one)
MenuSbrk ==
    {INST_ECALL, ADDI(10, 0, 16), ADDI(10, 0, 48), ADDI(10, 0, 4080),
     ADDI(17, 0, SYS_EXIT), ADDI(17, 0, 1)}

\* riscv-emu.py: the SyscallHandler installed, no trap vector, a7 = _sbrk
InitSbrk ==
    \E timer \in BOOLEAN, layout \in SbrkLayouts :
        /\ cpu = [CPU_init(FALSE) EXCEPT !.handle_ecall = "SyscallHandler.handle",
                                         !.registers[17] = w32(SYS_SBRK)]
        /\ ram = RAM_init("RAM") /\ tmr = MMIOTimer_init
        /\ state = [EmulatorState(timer) EXCEPT !.machine = layout]
        /\ phase = "execute"
        /\ ev = <<>>
        /\ g = G_init

NextSbrk ==
    \/ \E inst \in MenuSbrk : Execute(inst, MaxStepsSbrk)
    \/ TimerUpdate
    \/ CommitPC

SpecSbrk == InitSbrk /\ [][NextSbrk]_vars

\* the sum of two words as an integer of two limbs whose high limb is not
\* reduced, and the order of such integers
sum_pair(a, b) == <<a[1] + b[1] + ((a[2] + b[2]) \div B16), (a[2] + b[2]) % B16>>
pair_lt(x, y) == x[1] < y[1] \/ (x[1] = y[1] /\ x[2] < y[2])

\* the step is an ECALL that the _sbrk handler answers
sbrk_step ==
    /\ phase = "execute" /\ g'.call = "execute" /\ g'.inst = INST_ECALL
    /\ cpu.handle_ecall = "SyscallHandler.handle" /\ cpu.csrs[CSR_MTVEC] = Zero
    /\ cpu.registers[17] = w32(SYS_SBRK)
    /\ state.machine.stack_bottom # NONE

\* C33: _sbrk with increment a0 returns the old heap_end in a0 and moves
\* heap_end up by a0 when heap_end + a0 is below stack_bottom; otherwise it
\* returns 0xFFFFFFFF and leaves heap_end alone; heap_end stays below
\* stack_bottom through every sequence of calls
C33_Sbrk ==
    /\ [][sbrk_step =>
            IF pair_lt(sum_pair(state.machine.heap_end, cpu.registers[10]),
                       state.machine.stack_bottom)
            THEN /\ cpu'.registers[10] = state.machine.heap_end
                 /\ state'.machine.heap_end = sum_pair(state.machine.heap_end, cpu.registers[10])
                 /\ state'.machine.stack_bottom = state.machine.stack_bottom
            ELSE /\ cpu'.registers[10] = <<B16 - 1, B16 - 1>>
                 /\ state'.machine = state.machine]_vars
    /\ [](state.machine.stack_bottom # NONE
            => pair_lt(state.machine.heap_end, state.machine.stack_bottom))

\* _sbrk(48) has moved the heap end from 0x1000 to 0x1030 and returned 0x1000
C33_Witness ==
    /\ g.call = "execute" /\ g.inst = INST_ECALL
    /\ state.machine.heap_end = w32(4144) /\ state.machine.stack_bottom = w32(4160)
    /\ cpu.registers[10] = w32(4096)

\* _sbrk was refused: the heap end kept its place and a0 holds -1
C33_WitnessRefused ==
    /\ g.call = "execute" /\ g.inst = INST_ECALL
    /\ cpu.registers[17] = w32(SYS_SBRK)
    /\ state.machine.heap_end = w32(4144) /\ state.machine.stack_bottom = w32(4160)
    /\ cpu.registers[10] = <<B16 - 1, B16 - 1>>

\* the refusal of an increment whose sum with heap_end leaves 32 bits
C33_WitnessCarry ==
    /\ g.call = "execute" /\ g.inst = INST_ECALL
    /\ cpu.registers[17] = w32(SYS_SBRK)
    /\ state.machine.heap_end = <<B16 - 1, B16 - 32>>
    /\ cpu.registers[10] = <<B16 - 1, B16 - 1>>
    /\ state.instruction_count = 1

\* ---- browser_entry.py: the driver of the browser build ----------------------
\* options['ram_size'], the number of calls the page makes and the sizes of
\* the chunks it asks for
BROWSER_RAM_SIZE == 32
MaxCallsBrowser == 5
MaxChunk == 2

\* the options of the page that the driver reads
BrowserOptions == [timer : BOOLEAN, rvc : {FALSE}]

\* the files of the page: what the loaders read from them.  An ELF file has
\* one PT_LOAD segment of words at addr, an entry point and the symbols
\* __heap_start, __stack_bottom and __stack_top; a flat binary has its words.
\* FILE_SBRK calls _sbrk(0) and _sbrk(4) and runs into a zero word, which
\* ends the program; FILE_BIG asks for more RAM than there is; FILE_BIN jumps
\* out of the RAM; FILE_TXT is no program.
FILE_SBRK ==
    [type |-> "elf", addr |-> w32(4),
     words |-> <<ADDI(17, 0, SYS_SBRK), INST_ECALL, INST_ECALL>>,
     entry |-> w32(4), heap_start |-> w32(4), stack_bottom |-> w32(28), stack_top |-> w32(32)]
FILE_BIG ==
    [type |-> "elf", addr |-> w32(16), words |-> <<ADDI(5, 0, 1)>>,
     entry |-> w32(16), heap_start |-> w32(40), stack_bottom |-> w32(56), stack_top |-> w32(64)]
FILE_BIN ==
    [type |-> "bin", addr |-> Zero, words |-> <<JAL(0, 1024)>>,
     entry |-> Zero, heap_start |-> NONE, stack_bottom |-> NONE, stack_top |-> NONE]
FILE_TXT ==
    [type |-> "txt", addr |-> Zero, words |-> <<>>,
     entry |-> Zero, heap_start |-> NONE, stack_bottom |-> NONE, stack_top |-> NONE]
BrowserFiles == {FILE_SBRK, FILE_BIG, FILE_BIN, FILE_TXT}

\* the bytes of a sequence of words, little endian
RECURSIVE word_bytes(_)
word_bytes(ws) ==
    IF ws = <<>> THEN <<>>
    ELSE <<Head(ws)[2] % 256, Head(ws)[2] \div 256, Head(ws)[1] % 256, Head(ws)[1] \div 256>>
         \o word_bytes(Tail(ws))

\* EmulatorState.__init__
BrowserState_init ==
    [running |-> FALSE, instruction_count |-> 0, exit_info |-> "",
     options |-> [timer |-> FALSE, rvc |-> FALSE],
     machine |-> Machine_init,
     initialized |-> FALSE, file_loaded |-> FALSE, loaded_filepath |-> NONE,
     initial_pc |-> Zero, initial_heap_end |-> Zero, should_reset_pc |-> TRUE]

\* RAM(ram_size, init='zero') or RAM_MMIO(ram_size, init='zero') with the
\* timer registered
BrowserRam(options) ==
    [kind |-> IF options.timer THEN "RAM_MMIO" ELSE "RAM",
     size |-> BROWSER_RAM_SIZE, base_addr |-> Zero,
     mmio_ranges |-> IF options.timer THEN <<BrowserTimerRange>> ELSE <<>>,
     memory |-> [i \in 0..(BROWSER_RAM_SIZE + PADDING - 1) |-> 0]]

\* initialize(options) on the driver w = [cpu, ram, tmr, state]: a new RAM,
\* CPU, Machine, timer and syscall handler; the other fields of state stay
initialize(w, options) ==
    [cpu |-> [CPU_init(options.rvc) EXCEPT !.handle_ecall = "BrowserSyscallHandler.handle"],
     ram |-> BrowserRam(options),
     tmr |-> MMIOTimer_init,
     state |-> [w.state EXCEPT !.options = options,
                               !.machine = Machine_init,
                               !.initialized = TRUE]]

\* the emulator value of a driver, and the driver after a call left it as m
emu_of(w) ==
    [cpu |-> w.cpu, ram |-> w.ram, tmr |-> w.tmr, exc |-> "none", ev |-> <<>>, io |-> <<>>,
     mach |-> w.state.machine]
driver_of(w, m) ==
    [cpu |-> m.cpu, ram |-> m.ram, tmr |-> m.tmr, state |-> [w.state EXCEPT !.machine = m.mach]]

\* Machine.load_elf: the segment, the entry point, the symbols found
load_elf(m, file) ==
    IF store_bytes(m, file.addr, word_bytes(file.words)).exc # "none"
    THEN store_bytes(m, file.addr, word_bytes(file.words))
    ELSE [store_bytes(m, file.addr, word_bytes(file.words)) EXCEPT
             !.cpu.pc = file.entry,
             !.mach.heap_end = IF file.heap_start = NONE THEN @ ELSE file.heap_start,
             !.mach.stack_bottom = IF file.stack_bottom = NONE THEN @ ELSE file.stack_bottom,
             !.mach.stack_top = IF file.stack_top = NONE THEN @ ELSE file.stack_top]

\* Machine.load_flatbinary
load_flatbinary(m, file) ==
    IF store_bytes(m, Zero, word_bytes(file.words)).exc # "none"
    THEN store_bytes(m, Zero, word_bytes(file.words))
    ELSE [store_bytes(m, Zero, word_bytes(file.words)) EXCEPT !.cpu.pc = Zero]

\* an address of the small machine as a number; None and 0 count as unset
addr_value(a) == IF a = NONE THEN 0 ELSE a[1] * B16 + a[2]
max_of(x, y) == IF x >= y THEN x ELSE y

\* load_file, the end of a load that went through
file_loaded_ok(w, file) ==
    [w |-> [w EXCEPT !.state.initial_pc = w.cpu.pc,
                     !.state.initial_heap_end =
                         IF addr_value(w.state.machine.heap_end) = 0 THEN Zero
                         ELSE w.state.machine.heap_end,
                     !.state.loaded_filepath = file,
                     !.state.file_loaded = TRUE,
                     !.state.instruction_count = 0,
                     !.state.should_reset_pc = TRUE],
     ret |-> TRUE]

\* load_file from the loading of the file on
load_into(w, file) ==
    IF file.type = "elf"
    THEN IF load_elf(emu_of(w), file).exc # "none"
              \/ max_of(addr_value(load_elf(emu_of(w), file).mach.stack_top),
                        addr_value(load_elf(emu_of(w), file).mach.heap_end)) > w.ram.size
         THEN [w |-> driver_of(w, load_elf(emu_of(w), file)), ret |-> FALSE]
         ELSE file_loaded_ok(driver_of(w, load_elf(emu_of(w), file)), file)
    ELSE IF file.type = "bin"
    THEN IF load_flatbinary(emu_of(w), file).exc # "none"
         THEN [w |-> driver_of(w, load_flatbinary(emu_of(w), file)), ret |-> FALSE]
         ELSE file_loaded_ok(driver_of(w, load_flatbinary(emu_of(w), file)), file)
    ELSE [w |-> w, ret |-> FALSE]

\* the driver that reinitializes before every load
load_file_always_reinit(w, file, options) ==
    IF ~w.state.initialized THEN [w |-> w, ret |-> FALSE]
    ELSE load_into(initialize([w EXCEPT !.state.initialized = FALSE,
                                        !.state.file_loaded = FALSE], options), file)

\* load_file(filepath, options)
load_file(w, file, options) ==
    IF ~w.state.initialized THEN [w |-> w, ret |-> FALSE]
    ELSE IF w.state.file_loaded
    THEN load_into(initialize([w EXCEPT !.state.initialized = FALSE,
                                        !.state.file_loaded = FALSE], options), file)
    ELSE load_into(w, file)

\* the start() that always resumes
start_always_resumes(w) ==
    IF ~w.state.initialized \/ ~w.state.file_loaded
    THEN [w |-> w, exc |-> "RuntimeError"]
    ELSE [w |-> [w EXCEPT !.state.running = TRUE,
                          !.state.exit_info = "",
                          !.state.should_reset_pc = FALSE],
          exc |-> "none"]

\* start()
start(w) ==
    IF ~w.state.initialized \/ ~w.state.file_loaded
    THEN [w |-> w, exc |-> "RuntimeError"]
    ELSE [w |-> [w EXCEPT !.cpu.pc = IF w.state.should_reset_pc THEN w.state.initial_pc ELSE @,
                          !.state.machine.heap_end =
                              IF w.state.should_reset_pc THEN w.state.initial_heap_end ELSE @,
                          !.state.instruction_count = IF w.state.should_reset_pc THEN 0 ELSE @,
                          !.state.running = TRUE,
                          !.state.exit_info = "",
                          !.state.should_reset_pc = FALSE],
          exc |-> "none"]

\* stop()
stop(w) == [w EXCEPT !.state.running = FALSE]

\* reset()
reset(w) ==
    IF ~w.state.file_loaded \/ w.state.loaded_filepath = NONE THEN [w |-> w, ret |-> FALSE]
    ELSE load_file(initialize([w EXCEPT !.state.initialized = FALSE,
                                        !.state.file_loaded = FALSE], w.state.options),
                   w.state.loaded_filepath, w.state.options)

\* run_chunk, the for loop: n iterations from m at most; done counts the
\* iterations that reached state.instruction_count += 1
chunk_next(r) == [m |-> r.m, done |-> r.done + 1]
RECURSIVE chunk_loop(_, _, _)
chunk_timer(m, timer, n) ==
    IF m.exc # "none" THEN [m |-> m, done |-> 0]
    ELSE chunk_next(chunk_loop([m EXCEPT !.cpu.pc = m.cpu.next_pc], timer, n - 1))
chunk_executed(m, timer, n) ==
    IF m.exc # "none" THEN [m |-> m, done |-> 0]
    ELSE chunk_timer(IF timer THEN timer_update(m) ELSE m, timer, n)
chunk_loop(m, timer, n) ==
    IF n = 0 THEN [m |-> m, done |-> 0]
    ELSE IF load_word(m, m.cpu.pc).exc # "none"
    THEN [m |-> [m EXCEPT !.exc = load_word(m, m.cpu.pc).exc], done |-> 0]
    ELSE chunk_executed(execute(m, load_word(m, m.cpu.pc).val), timer, n)

\* run_chunk after the loop ended as r: the except clauses or return True
chunk_ended(w, r) ==
    [w |-> [driver_of(w, r.m) EXCEPT
               !.state.instruction_count = @ + r.done,
               !.state.running = (r.m.exc = "none"),
               !.state.exit_info = IF r.m.exc = "none" THEN @ ELSE r.m.exc,
               !.state.should_reset_pc = IF r.m.exc = "none" THEN @ ELSE TRUE],
     ret |-> (r.m.exc = "none"), exc |-> r.m.exc, done |-> r.done]

\* run_chunk(instruction_count)
run_chunk(w, n) ==
    IF ~w.state.running THEN [w |-> w, ret |-> FALSE, exc |-> "none", done |-> 0]
    ELSE chunk_ended(w, chunk_loop(emu_of(w), w.state.options.timer, n))

\* ---- the page drives the driver ---------------------------------------------
Driver == [cpu |-> cpu, ram |-> ram, tmr |-> tmr, state |-> state]

\* the driver after a call of the page left it as w; c records the call
Called(w, c) ==
    /\ cpu' = w.cpu /\ ram' = w.ram /\ tmr' = w.tmr /\ state' = w.state
    /\ ev' = <<>>
    /\ g' = c
    /\ UNCHANGED phase

BrowserCall(name) ==
    [call |-> name, ret |-> TRUE, exc |-> "none", done |-> 0,
     file |-> NONE, calls |-> g.calls + 1]

\* the page has called initialize(options) when it loaded
InitBrowser ==
    \E options \in BrowserOptions :
        /\ cpu = initialize([state |-> BrowserState_init], options).cpu
        /\ ram = initialize([state |-> BrowserState_init], options).ram
        /\ tmr = initialize([state |-> BrowserState_init], options).tmr
        /\ state = initialize([state |-> BrowserState_init], options).state
        /\ phase = "browser"
        /\ ev = <<>>
        /\ g = [call |-> "initialize", ret |-> TRUE, exc |-> "none", done |-> 0,
                file |-> NONE, calls |-> 0]

\* the page calls load_file with the options it initialized the driver with
LoadFile ==
    \E file \in BrowserFiles :
        /\ phase = "browser" /\ g.calls < MaxCallsBrowser
        /\ Called(load_file(Driver, file, state.options).w,
                  [BrowserCall("load_file") EXCEPT
                      !.ret = load_file(Driver, file, state.options).ret,
                      !.file = file])

BrowserStart ==
    /\ phase = "browser" /\ g.calls < MaxCallsBrowser
    /\ Called(start(Driver).w, [BrowserCall("start") EXCEPT !.exc = start(Driver).exc])

BrowserStop ==
    /\ phase = "browser" /\ g.calls < MaxCallsBrowser
    /\ Called(stop(Driver), BrowserCall("stop"))

BrowserReset ==
    /\ phase = "browser" /\ g.calls < MaxCallsBrowser
    /\ Called(reset(Driver).w,
              [BrowserCall("reset") EXCEPT !.ret = reset(Driver).ret,
                                           !.file = state.loaded_filepath])

RunChunk ==
    \E n \in 1..MaxChunk :
        /\ phase = "browser" /\ g.calls < MaxCallsBrowser
        /\ Called(run_chunk(Driver, n).w,
                  [BrowserCall("run_chunk") EXCEPT !.ret = run_chunk(Driver, n).ret,
                                                   !.exc = run_chunk(Driver, n).exc,
                                                   !.done = run_chunk(Driver, n).done])

NextBrowser ==
    \/ LoadFile
    \/ BrowserStart
    \/ BrowserStop
    \/ BrowserReset
    \/ RunChunk

SpecBrowser == InitBrowser /\ [][NextBrowser]_vars

\* start() went through: the driver was ready
started == g'.call = "start" /\ g'.exc = "none"

\* the call before was a load or a reset that succeeded, or a chunk that an
\* exit of the program or an error ended
after_fresh ==
    \/ g.call \in {"load_file", "reset"} /\ g.ret
    \/ g.call = "run_chunk" /\ g.exc # "none"

\* start() left pc and the instruction count as they were
resumed_here == cpu'.pc = cpu.pc /\ state'.instruction_count = state.instruction_count

\* start() went back to the entry point of the loaded file
restarted ==
    /\ cpu'.pc = state.initial_pc
    /\ state'.machine.heap_end = state.initial_heap_end
    /\ state'.instruction_count = 0

\* run_chunk on a driver that is not running executes nothing
idle_chunk ==
    g'.call = "run_chunk" /\ ~state.running
        => g'.done = 0 /\ ~g'.ret /\ cpu' = cpu /\ ram' = ram /\ tmr' = tmr /\ state' = state

\* C34: start() resumes from the current pc, with pc and instruction_count
\* unchanged, when the call before it was stop(), and restarts from the
\* entry point (pc = initial pc, heap_end = initial heap end,
\* instruction_count = 0) when the call before it was a load, a reset or a
\* chunk that ended with the exit of the program or an error; run_chunk
\* executes no instruction while the driver is not running
C34_StartResumesOrRestarts ==
    [][/\ started /\ g.call = "stop" => resumed_here
       /\ started /\ after_fresh => restarted
       /\ idle_chunk]_vars

\* C34, what holds of the driver: start() resumes after a stop() that paused
\* a started program, restarts whenever no start() came since the last load,
\* reset, exit or error, and run_chunk executes nothing while not running
C34_ResumesStartedProgram ==
    [][/\ started /\ ~state.should_reset_pc => resumed_here
       /\ started /\ state.should_reset_pc => restarted
       /\ started /\ after_fresh => restarted
       /\ idle_chunk]_vars

\* start() after a stop() that paused a program two instructions in
C34_WitnessResume ==
    /\ g.call = "start" /\ g.exc = "none"
    /\ state.instruction_count = 2 /\ cpu.pc = w32(12)
    /\ state.running

\* start() after the stop() that followed the end of a program: the program
\* starts again although the call before was stop()
C34_WitnessRestartAfterStop ==
    /\ g.call = "start" /\ g.exc = "none" /\ g.calls = 5
    /\ state.loaded_filepath = FILE_BIN
    /\ cpu.pc = Zero /\ state.instruction_count = 0

\* the byte a file puts at index i of a zeroed RAM
file_byte(file, i) ==
    IF i >= file.addr[2] /\ i < file.addr[2] + 4 * Len(file.words)
    THEN word_bytes(file.words)[i - file.addr[2] + 1]
    ELSE 0

\* RAM, registers, CSRs and timers of driver w hold what the constructors
\* and the loading of file put there, and nothing else
clean_load(w, file) ==
    /\ \A i \in 0..(BROWSER_RAM_SIZE + PADDING - 1) : w.ram.memory[i] = file_byte(file, i)
    /\ \A r \in 0..31 : w.cpu.registers[r] = Zero
    /\ w.cpu.csrs = CPU_init(w.state.options.rvc).csrs
    /\ w.cpu.mtime = CPU_init(w.state.options.rvc).mtime
    /\ w.cpu.mtimecmp = CPU_init(w.state.options.rvc).mtimecmp
    /\ w.cpu.mtip = FALSE
    /\ w.tmr = MMIOTimer_init

\* C35: after a load_file that returned True, RAM, registers, CSRs and timer
\* state hold nothing of any earlier load_file call, one that failed
\* part-way included
C35_LoadFileReinitializes ==
    g.call = "load_file" /\ g.ret => clean_load(Driver, g.file)

\* C35, what holds of the driver: a load_file that finds a file loaded, and
\* every reset, leaves nothing of what came before
C35_ReloadReinitializes ==
    [][/\ g'.call = "load_file" /\ g'.ret /\ state.file_loaded
            => clean_load([cpu |-> cpu', ram |-> ram', tmr |-> tmr', state |-> state'], g'.file)
       /\ g'.call = "reset" /\ g'.ret
            => clean_load([cpu |-> cpu', ram |-> ram', tmr |-> tmr', state |-> state'], g'.file)]_vars

\* FILE_BIN loaded after the rejected FILE_BIG: the word of FILE_BIG is
\* still at address 16
C35_WitnessLeftover ==
    /\ g.call = "load_file" /\ g.ret /\ g.file = FILE_BIN
    /\ word_at(ram, 16) = ADDI(5, 0, 1)

\* ---- the timer interrupt and the compare value ------------------------------
MaxStepsTimer == 5

\* a handler's instructions: the two halves of mtimecmp through the CSR
\* shadows, to 31 (ahead of mtime) or to 1 (behind it), and MRET
MenuTimer ==
    {ADDI(0, 0, 0),
     CSRRWI(0, CSR_MTIMECMP_LO, 31), CSRRWI(0, CSR_MTIMECMP_LO, 1),
     CSRRWI(0, CSR_MTIMECMP_HI, 0),
     INST_MRET}

\* the host has enabled the timer interrupt and installed a handler; the
\* compare value is one tick ahead or at its reset value
InitTimer ==
    \E near \in BOOLEAN :
        Start([CPU_init(FALSE) EXCEPT
                  !.csrs[CSR_MTVEC] = HOST_MTVEC,
                  !.csrs[CSR_MSTATUS] = or32(@, w32(2^MIE_BIT)),
                  !.csrs[CSR_MIE] = w32(2^MTI_BIT),
                  !.csrs[CSR_MTIMECMP_LO] = IF near THEN w32(1) ELSE @,
                  !.csrs[CSR_MTIMECMP_HI] = IF near THEN Zero ELSE @,
                  !.mtimecmp = IF near THEN <<0, 0, 0, 1>> ELSE @],
              RAM_init("RAM"), TRUE)

NextTimer ==
    \/ \E inst \in MenuTimer : Execute(inst, MaxStepsTimer)
    \/ TimerUpdate
    \/ CommitPC

SpecTimer == InitTimer /\ [][NextTimer]_vars

\* C36: a machine timer interrupt is taken only at a tick at which
\* mtime >= mtimecmp; so after a handler has written both halves of mtimecmp
\* through the CSR shadows to a value above mtime and returned with MRET, none
\* is taken before mtime reaches that value
C36_TakenOnlyWhenDue ==
    [][g'.call = "timer_update" /\ timer_taken(ev')
          => time_ge(cpu'.mtime, cpu'.mtimecmp)]_vars

\* C37: when mtvec # 0, mstatus.MIE = 1 and mie.MTIE = 1 hold at a tick with
\* mtime >= mtimecmp, however mtimecmp was set, the timer interrupt is taken
\* at that tick or at the next one: a tick that finds these conditions after
\* the tick before found them and took no interrupt takes it
C37_NeverLost ==
    [][g'.call = "timer_update" /\ g.call = "execute" /\ g.due /\ timer_due(cpu)
          => timer_taken(ev')]_vars

\* ---- the MMIO timer of the browser build -------------------------------------
MaxStepsBrowserTimer == 3

\* word stores to mtimecmp_lo, mtimecmp_hi, mtime_lo and mtime_hi, and a
\* load of mtimecmp_lo
MenuBrowserTimer ==
    {SW(5, 0, 28), SW(6, 4, 28), SW(5, 0, 7), SW(6, 4, 7), LW(29, 0, 28)}

\* the browser driver with the timer option: a RAM_MMIO with the MMIOTimer
\* of browser_peripherals.py registered
InitBrowserTimer ==
    \E rvc \in BOOLEAN, t1 \in {Zero, w32(1)} :
        Start([CPU_init(rvc) EXCEPT !.registers[5] = T0_VALUE,
                                    !.registers[6] = t1,
                                    !.registers[7] = REG_MTIME_LO,
                                    !.registers[28] = REG_MTIMECMP_LO,
                                    !.handle_ecall = "BrowserSyscallHandler.handle"],
              [RAM_init("RAM_MMIO") EXCEPT !.mmio_ranges = <<BrowserTimerRange>>], TRUE)

NextBrowserTimer ==
    \/ \E inst \in MenuBrowserTimer : Execute(inst, MaxStepsBrowserTimer)
    \/ TimerUpdate
    \/ CommitPC

SpecBrowserTimer == InitBrowserTimer /\ [][NextBrowserTimer]_vars

\* the step is a word store to mtimecmp_lo or mtimecmp_hi
mtimecmp_store ==
    /\ g'.call = "execute" /\ mmio_write(cpu, ram, effective(cpu, g'.inst))
    /\ reg_counter(store_addr(cpu, effective(cpu, g'.inst))) = "mtimecmp"

\* C38: in the MMIO timer of the browser build a word store to mtimecmp_lo
\* alone or to mtimecmp_hi alone leaves the 64-bit mtimecmp of the CPU as it
\* is; mtimecmp changes only when both halves have been stored since the
\* last commit
C38_BrowserMtimecmpHalves ==
    [][mtimecmp_store =>
          (\/ cpu'.mtimecmp = cpu.mtimecmp
           \/ both(mw_halves(effective(cpu, g'.inst), cpu, g.mw)))]_vars

\* C38, what holds of the browser timer: a store to one half of mtimecmp
\* replaces that half of cpu.mtimecmp at once and keeps the other half, and
\* mtime changes, apart from its ticks, only when both its halves are stored
C38_BrowserStoresAtOnce ==
    [][/\ mtimecmp_store /\ retired_step /\ reg_half(store_addr(cpu, effective(cpu, g'.inst))) = "lo"
            => cpu'.mtimecmp = time64(<<cpu.mtimecmp[1], cpu.mtimecmp[2]>>,
                                      cpu.registers[rs2_of(effective(cpu, g'.inst))])
       /\ mtimecmp_store /\ retired_step /\ reg_half(store_addr(cpu, effective(cpu, g'.inst))) = "hi"
            => cpu'.mtimecmp = time64(cpu.registers[rs2_of(effective(cpu, g'.inst))],
                                      time_lo(cpu.mtimecmp))
       /\ (g'.call = "execute" /\ mmio_write(cpu, ram, effective(cpu, g'.inst))
           /\ reg_counter(store_addr(cpu, effective(cpu, g'.inst))) = "mtime")
            => committed_or_kept("mtime", mw_halves(effective(cpu, g'.inst), cpu, g.mw))]_vars

\* ---- the range of the registers ----------------------------------------------
MaxStepsWrite == 3

\* a register holds an integer in [0, 2^32)
in_range32(v) == v[1] \in 0..(B16 - 1) /\ v[2] \in 0..(B16 - 1)

\* ecall, the file descriptors 1 (stdout), 0 (in fd_map) and 5 (unknown) in
\* a0, a count in a2, and instructions that read a0
MenuWrite ==
    {INST_ECALL, ADDI(10, 0, 1), ADDI(10, 0, 0), ADDI(10, 0, 5), ADDI(12, 0, 3),
     enc(10, 10, 6, 6, 51), ADDI(6, 10, 1)}

\* riscv-emu.py: the SyscallHandler installed, no trap vector, a7 = _write,
\* a1 = 0; os_error is the errno os.write fails with on the host, 0 for none
InitWrite ==
    \E timer \in BOOLEAN, os_error \in {0, EBADF} :
        /\ cpu = [CPU_init(FALSE) EXCEPT !.handle_ecall = "SyscallHandler.handle",
                                         !.registers[17] = w32(SYS_WRITE),
                                         !.registers[10] = w32(1)]
        /\ ram = RAM_init("RAM") /\ tmr = MMIOTimer_init
        /\ state = [EmulatorState(timer) EXCEPT
                       !.machine = [heap_end |-> w32(4096), stack_bottom |-> w32(4160),
                                    stack_top |-> w32(8192), os_error |-> os_error]]
        /\ phase = "execute"
        /\ ev = <<>>
        /\ g = G_init

\* the run is followed up to the first register out of range
NextWrite ==
    \/ \E inst \in MenuWrite :
          /\ \A r \in 0..31 : in_range32(cpu.registers[r])
          /\ Execute(inst, MaxStepsWrite)
    \/ TimerUpdate
    \/ CommitPC

SpecWrite == InitWrite /\ [][NextWrite]_vars

\* C39: after every retired instruction and after every ECALL that the
\* Python-side syscall handler has handled, the calls that report an error
\* by -errno in a0 included, each general-purpose register holds an integer
\* in [0, 2^32)
C39_RegistersInRange ==
    g.call = "execute" /\ state.running => \A r \in 0..31 : in_range32(cpu.registers[r])

\* C39, what holds: an instruction other than ECALL that retires on
\* registers in range leaves registers in range, and so does a _write to
\* stdout or stderr
C39_InstructionsKeepRange ==
    [][(/\ retired_step
        /\ \A r \in 0..31 : in_range32(cpu.registers[r])
        /\ (g'.inst = INST_ECALL => cpu.registers[10] \in {w32(1), w32(2)}))
          => \A r \in 0..31 : in_range32(cpu'.registers[r])]_vars

====
